---------------------------- MODULE Spec2Model ----------------------------
(***************************************************************************)
(* A model of pyhosts: the Host entry (models.py), its line codec          *)
(* (Host.from_line / Host.to_line), the file parser and atomic writer      *)
(* (parser.py) and the lazily loaded Hosts collection (hosts.py).          *)
(*                                                                         *)
(* Text is modelled character by character: a Python str is a sequence of  *)
(* one-character strings.  Python's None is the empty tuple <<>> and a     *)
(* present optional value v is the one-element tuple <<v>>.                *)
(***************************************************************************)
EXTENDS Integers, Sequences, FiniteSets, TLC

VARIABLES
    e,          \* codec: the arguments given to the Host constructor
    cpc,        \* codec: position ("new", "built", "rejected", "encoded", "decoded")
    line,       \* codec: the text produced by to_line
    decoded,    \* codec: the outcome of from_line(line)
    reenc,      \* codec: to_line() and str() of the Host from_line returned
    fs,         \* the file system: path -> file
    _hosts,     \* Hosts._hosts: None (<<>>) or <<list of Host>>
    _loaded,    \* Hosts._loaded
    file_path,  \* Hosts.file_path
    last,       \* the last call made on the Hosts object and its outcome
    wpc,        \* writer: position inside HostsFileParser.write
    warg,       \* writer: the arguments of the running HostsFileParser.write
    wpre,       \* writer: the target file as it was when write was called
    wwritten,   \* writer: number of host lines written to the temp file so far
    werr,       \* writer: the exception raised inside write, and what unlink did
    writers     \* two concurrent calls of HostsFileParser.write: writer -> its position

codecVars == <<e, cpc, line, decoded, reenc>>
collVars  == <<_hosts, _loaded, file_path, last>>
writeVars == <<wpc, warg, wpre, wwritten, werr, writers>>
vars      == <<e, cpc, line, decoded, reenc, fs, _hosts, _loaded, file_path, last,
               wpc, warg, wpre, wwritten, werr, writers>>

-----------------------------------------------------------------------------
(* Bounds of the model.                                                    *)

\* Hosts.add is enabled only while the collection has fewer entries than this.
MaxHosts == 2

\* HostsFileParser.write is called with at most this many entries.
MaxWrite == 2

-----------------------------------------------------------------------------
(* Python str operations used by the code.                                 *)

None == <<>>
Some(v) == <<v>>

SP  == " "
TAB == "\t"
NL  == "\n"
CR  == "\r"
HASH == "#"

\* The characters str.strip() and str.split() treat as whitespace (those
\* among the characters of the model).
IsSpace(c) == c \in {SP, TAB, NL, CR}

Contains(s, c) == \E i \in 1..Len(s) : s[i] = c

RECURSIVE LStrip(_)
LStrip(s) == IF s # <<>> /\ IsSpace(Head(s)) THEN LStrip(Tail(s)) ELSE s

RECURSIVE RStrip(_)
RStrip(s) ==
    IF s # <<>> /\ IsSpace(s[Len(s)]) THEN RStrip(SubSeq(s, 1, Len(s) - 1)) ELSE s

\* str.strip()
Strip(s) == RStrip(LStrip(s))

\* str.find(c) + 1: the position of the first c in s, 0 when absent.
RECURSIVE FirstIndex(_, _, _)
FirstIndex(s, c, i) ==
    IF i > Len(s) THEN 0
    ELSE IF s[i] = c THEN i
    ELSE FirstIndex(s, c, i + 1)

\* str.split(): the maximal runs of non-whitespace characters, in order.
RECURSIVE SplitFrom(_, _, _)
SplitFrom(s, i, cur) ==
    IF i > Len(s) THEN (IF cur = <<>> THEN <<>> ELSE <<cur>>)
    ELSE IF IsSpace(s[i])
         THEN (IF cur = <<>> THEN <<>> ELSE <<cur>>) \o SplitFrom(s, i + 1, <<>>)
         ELSE SplitFrom(s, i + 1, Append(cur, s[i]))

\* str.split() taking only spaces and tabs as separators.
RECURSIVE SplitBlanksFrom(_, _, _)
SplitBlanksFrom(s, i, cur) ==
    IF i > Len(s) THEN (IF cur = <<>> THEN <<>> ELSE <<cur>>)
    ELSE IF s[i] \in {SP, TAB}
         THEN (IF cur = <<>> THEN <<>> ELSE <<cur>>) \o SplitBlanksFrom(s, i + 1, <<>>)
         ELSE SplitBlanksFrom(s, i + 1, Append(cur, s[i]))

SplitBlanks(s) == SplitBlanksFrom(s, 1, <<>>)

Split(s) == SplitFrom(s, 1, <<>>)

\* sep.join(parts)
RECURSIVE Join(_, _)
Join(parts, sep) ==
    IF parts = <<>> THEN <<>>
    ELSE IF Len(parts) = 1 THEN parts[1]
    ELSE parts[1] \o <<sep>> \o Join(Tail(parts), sep)

-----------------------------------------------------------------------------
(* ipaddress: the addresses of the model, their canonical text (str) and   *)
(* the texts ip_address() parses.  Every other text of the model is        *)
(* rejected by ip_address(), as the library rejects it.                    *)

Addr(v, n, scope) == [version |-> v, n |-> n, scope |-> scope]

IP_10_0_0_1 == Addr(4, 167772161, <<>>)
IP_10_0_0_2 == Addr(4, 167772162, <<>>)
IP6_1       == Addr(6, 1, <<>>)
IP6_1_scope == Addr(6, 1, <<HASH>>)       \* ip_address('::1%#'), a scoped address
NotAnAddress == Addr(0, 0, <<>>)          \* a value that is no IPv4Address/IPv6Address

T_10_0_0_1 == <<"1", "0", ".", "0", ".", "0", ".", "1">>
T_10_0_0_2 == <<"1", "0", ".", "0", ".", "0", ".", "2">>
T_6_1      == <<":", ":", "1">>
T_6_1_long == <<"0", ":", ":", "1">>
T_6_1_scope == <<":", ":", "1", "%", HASH>>

\* <<text, address>>: what ip_address(text) returns; the first entry of an
\* address is its canonical text.
IpForms ==
    << <<T_10_0_0_1, IP_10_0_0_1>>,
       <<T_10_0_0_2, IP_10_0_0_2>>,
       <<T_6_1, IP6_1>>,
       <<T_6_1_long, IP6_1>>,
       <<T_6_1_scope, IP6_1_scope>> >>

\* ip_address(text): Some(address), or None where the library raises ValueError.
ip_address(text) ==
    LET m == {i \in 1..Len(IpForms) : IpForms[i][1] = text}
    IN  IF m = {} THEN None ELSE Some(IpForms[CHOOSE i \in m : TRUE][2])

\* str(address): the canonical text.
IpStr(a) ==
    LET m == {i \in 1..Len(IpForms) : IpForms[i][2] = a}
    IN  IpForms[CHOOSE i \in m : \A j \in m : i <= j][1]

-----------------------------------------------------------------------------
(* models.py: Host.                                                        *)

Host(ip, hostname, aliases, comment) ==
    [ip_address |-> ip, hostname |-> hostname, aliases |-> aliases, comment |-> comment]

\* Values passed as hostname that are not str: None and the int 123.  A str
\* is a tuple of one-character strings; these are tuples of one longer
\* string, so they equal no str.
PyNone == <<"None">>
Py123  == <<"123">>

\* isinstance(v, str), and "not v", for a value passed as hostname.
IsStr(v) == v \notin {PyNone, Py123}
Falsy(v) == v \in {<<>>, PyNone}

\* Host.__post_init__: "ok", or the exception it raises.
__post_init__(h) ==
    IF h.ip_address.version \notin {4, 6} THEN "TypeError"
    ELSE IF Falsy(h.hostname) \/ ~IsStr(h.hostname) THEN "ValueError"
    ELSE IF /\ h.comment # None
            /\ h.comment[1] # <<>>
            /\ (Contains(h.comment[1], NL) \/ Contains(h.comment[1], TAB))
         THEN "ValueError"
    ELSE "ok"

\* The outcome of from_line: a Host, a skip (None), or an exception.
Parsed(h) == [tag |-> "host", host |-> h]
Skip      == [tag |-> "skip", host |-> None]
Raised(x) == [tag |-> x, host |-> None]

\* cls(...) with an exception of the constructor turned into a skip.
NewHostOrSkip(ip, hostname, aliases, comment) ==
    LET h == Host(ip, hostname, aliases, comment)
    IN  IF __post_init__(h) = "ok" THEN Parsed(h) ELSE Skip

\* cls(...) at the end of from_line: the constructor runs __post_init__.
NewHost(ip, hostname, aliases, comment) ==
    LET h == Host(ip, hostname, aliases, comment)
    IN  IF __post_init__(h) = "ok" THEN Parsed(h) ELSE Raised(__post_init__(h))

\* Host.from_line
from_line(ln) ==
    LET l1 == Strip(ln) IN
    IF l1 = <<>> THEN Skip
    ELSE IF Head(l1) = HASH THEN Skip
    ELSE
      LET k       == FirstIndex(l1, HASH, 1)
          comment == IF k = 0 THEN None
                     ELSE Some(Strip(SubSeq(l1, k + 1, Len(l1))))
          l2      == IF k = 0 THEN l1 ELSE Strip(SubSeq(l1, 1, k - 1))
          parts   == Split(l2)
      IN  IF Len(parts) < 2 THEN Skip
          ELSE IF ip_address(parts[1]) = None THEN Skip
          ELSE NewHost(ip_address(parts[1])[1], parts[2],
                       IF Len(parts) > 2 THEN SubSeq(parts, 3, Len(parts)) ELSE <<>>,
                       comment)

\* to_line with the comment left out (a faulty encoder).
to_line_no_comment(h) ==
    Join(<<IpStr(h.ip_address), h.hostname>> \o h.aliases, TAB) \o <<NL>>

\* to_line joining the fields with spaces.
to_line_spaces(h) ==
    Join(<<IpStr(h.ip_address), h.hostname>> \o h.aliases, SP)
    \o (IF h.comment # None /\ h.comment[1] # <<>>
        THEN <<TAB, HASH, SP>> \o h.comment[1] ELSE <<>>) \o <<NL>>

\* Host.to_line
to_line(h) ==
    LET parts == <<IpStr(h.ip_address), h.hostname>>
                 \o (IF h.aliases # <<>> THEN h.aliases ELSE <<>>)
        l     == Join(parts, TAB)
    IN  (IF h.comment # None /\ h.comment[1] # <<>>
         THEN l \o <<TAB, HASH, SP>> \o h.comment[1]
         ELSE l) \o <<NL>>

\* str.rstrip('\n')
RECURSIVE RStripNL(_)
RStripNL(s) ==
    IF s # <<>> /\ s[Len(s)] = NL THEN RStripNL(SubSeq(s, 1, Len(s) - 1)) ELSE s

\* Host.__str__
__str__(h) == RStripNL(to_line(h))

\* Host.all_names
all_names(h) == <<h.hostname>> \o h.aliases

InSeq(x, s) == \E i \in 1..Len(s) : s[i] = x

\* Host.matches without the address comparison.
matches_names_only(h, query) == InSeq(query, all_names(h))

\* Host.matches
matches(h, query) ==
    IF IpStr(h.ip_address) = query THEN TRUE
    ELSE IF InSeq(query, all_names(h)) THEN TRUE
    ELSE FALSE

-----------------------------------------------------------------------------
(* Files.  A file is a record: whether the path exists, whether it can be  *)
(* read, its text and its permission bits.                                 *)

Paths == {"target", "backup", "temp", "temp2", "other"}

\* Permission bits, as the set of the bits that are on: 0o644, 0o600 (what
\* mkstemp gives a new file) and 0o666; 0o002 is "ow".
Mode644 == {"ur", "uw", "gr", "or"}
Mode600 == {"ur", "uw"}
Mode666 == {"ur", "uw", "gr", "gw", "or", "ow"}

\* st_mode & 0o002
WorldWritable(m) == "ow" \in m

Missing    == [exists |-> FALSE, readable |-> FALSE, text |-> <<>>, mode |-> {}]
Unreadable == [exists |-> TRUE,  readable |-> FALSE, text |-> <<>>, mode |-> Mode600]
File(t)    == [exists |-> TRUE,  readable |-> TRUE,  text |-> t, mode |-> Mode644]

\* Iterating a file opened in text mode: the text is cut after every line
\* end ("\n", "\r\n" or "\r", each read as "\n"); a last line without a line
\* end is a line too.
RECURSIVE ReadLines(_, _)
ReadLines(t, cur) ==
    IF t = <<>> THEN (IF cur = <<>> THEN <<>> ELSE <<cur>>)
    ELSE IF Head(t) = NL THEN <<Append(cur, NL)>> \o ReadLines(Tail(t), <<>>)
    ELSE IF Head(t) = CR
         THEN <<Append(cur, NL)>>
              \o ReadLines(IF Len(t) > 1 /\ t[2] = NL THEN Tail(Tail(t)) ELSE Tail(t), <<>>)
    ELSE ReadLines(Tail(t), Append(cur, Head(t)))

\* The loop of parse giving up at the first line whose decoding raises.
RECURSIVE ParseLinesUntilRaise(_)
ParseLinesUntilRaise(ls) ==
    IF ls = <<>> THEN <<>>
    ELSE IF from_line(Head(ls)).tag \notin {"host", "skip"} THEN <<>>
    ELSE (IF from_line(Head(ls)).tag = "host" THEN <<from_line(Head(ls)).host>> ELSE <<>>)
         \o ParseLinesUntilRaise(Tail(ls))

\* The loop of HostsFileParser.parse: a line that decodes to a Host is
\* appended; a skip, or an exception of from_line, goes on to the next line.
RECURSIVE ParseLines(_)
ParseLines(ls) ==
    IF ls = <<>> THEN <<>>
    ELSE (IF from_line(Head(ls)).tag = "host" THEN <<from_line(Head(ls)).host>> ELSE <<>>)
         \o ParseLines(Tail(ls))

\* parse answering a path that does not exist with an empty list.
parse_missing_is_empty(f) ==
    IF ~f.exists THEN [raised |-> "none", hosts |-> <<>>]
    ELSE IF ~f.readable THEN [raised |-> "OSError", hosts |-> <<>>]
    ELSE [raised |-> "none", hosts |-> ParseLines(ReadLines(f.text, <<>>))]

\* HostsFileParser.parse
parse(f) ==
    IF ~f.exists THEN [raised |-> "FileNotFoundError", hosts |-> <<>>]
    ELSE IF ~f.readable THEN [raised |-> "OSError", hosts |-> <<>>]
    ELSE [raised |-> "none", hosts |-> ParseLines(ReadLines(f.text, <<>>))]

\* The header HostsFileParser.write puts first.
Header ==
    <<"#", " ", "M", "a", "n", "a", "g", "e", "d", " ", "b", "y", " ",
      "p", "y", "h", "o", "s", "t", "s", "\n">>
    \o <<"#", " ", "h", "t", "t", "p", "s", ":", "/", "/", "g", "i", "t", "h", "u", "b",
         ".", "c", "o", "m", "/", "i", "g", "o", "r", "m", "i", "l", "o", "v", "a", "n",
         "o", "v", "i", "c", "/", "p", "y", "h", "o", "s", "t", "s", "\n", "\n">>

\* The text of the first k entries' lines, as the write loop emits them.
RECURSIVE EntryLines(_, _)
EntryLines(hs, k) ==
    IF k = 0 THEN <<>> ELSE EntryLines(hs, k - 1) \o to_line(hs[k])

\* The complete text write produces for the entries hs.
Output(hs) == File(Header \o EntryLines(hs, Len(hs)))

-----------------------------------------------------------------------------
(* The inputs of the model.                                                *)

s_a == <<"a">>
s_b == <<"b">>
s_c == <<"c">>
s_d == <<"d">>
s_A == <<"A">>
s_x == <<"x">>
s_find  == <<"f", "i", "n", "d">>
s__a    == <<"_", "a">>
s__hosts == <<"_", "h", "o", "s", "t", "s">>

\* Constructor arguments tried by the codec.
CtorIps      == {IP_10_0_0_1, IP6_1, IP6_1_scope, NotAnAddress}
CtorNames    == {<<>>, s_a, <<"a", SP, "b">>, <<HASH, "a">>, <<"a", TAB, "b">>,
                 <<"a", NL, "b">>, <<SP, SP, SP>>, PyNone, Py123}
CtorAliases  == {<<>>, <<s_b>>, <<s_b, s_c>>, <<<<>>>>, <<<<"b", HASH>>>>}
CtorComments == {None, Some(<<>>), Some(s_x), Some(<<SP, "x">>), Some(<<"x", SP, HASH, "y">>),
                 Some(<<"x", TAB, "y">>), Some(<<"x", CR>>), Some(<<"x", NL, "y">>)}
CtorArgs == {Host(ip, n, al, c) : ip \in CtorIps, n \in CtorNames,
                                  al \in CtorAliases, c \in CtorComments}

\* Entries given to Hosts.add.
h_a1 == Host(IP_10_0_0_1, s_a, <<>>, None)
h_b1 == Host(IP_10_0_0_1, s_b, <<>>, None)          \* the address of h_a1, another name
h_a2 == Host(IP_10_0_0_2, s_a, <<>>, None)          \* the hostname of h_a1, another address
h_ca == Host(IP6_1, s_c, <<s_a>>, None)             \* an alias that is the hostname of h_a1
h_d  == Host(IP6_1, s_d, <<>>, Some(s_x))
AddHosts == {h_a1, h_b1, h_a2, h_ca, h_d}

\* Queries given to find, find_one and remove.
Queries == {s_a, s_b, s_c, s_A, T_10_0_0_1, T_6_1, T_6_1_long}

\* Names given to attribute access.
AttrNames == {s_a, s_c, s_x, T_6_1, s__a, s__hosts, s_find}

\* The file "10.0.0.1 a\n".
FileA == File(T_10_0_0_1 \o <<SP>> \o s_a \o <<NL>>)

\* A file of comment lines, blank lines, a malformed line and three entries,
\* two of which share an address.
FileMixed ==
    File(<<HASH, SP, "c", NL>> \o <<NL>>
         \o T_10_0_0_1 \o <<TAB>> \o s_a \o <<NL>>
         \o T_10_0_0_1 \o <<SP, SP>> \o s_b \o <<SP, SP>> \o s_c \o <<SP, HASH, SP, "x", NL>>
         \o <<"b", "a", "d", SP, "a", NL>>
         \o T_6_1_long \o <<SP>> \o s_d \o <<NL>>)

\* A file whose first and third lines are the same entry.
FileDup ==
    File(T_10_0_0_1 \o <<SP>> \o s_a \o <<NL>>
         \o T_10_0_0_2 \o <<SP>> \o s_b \o <<NL>>
         \o T_10_0_0_1 \o <<SP>> \o s_a \o <<NL>>)

InitialFiles == {Missing, Unreadable, FileA, FileMixed, FileDup}

\* A file with an entry, a line whose decoding raises (a tab inside the
\* comment part), a blank line, a comment line, two malformed lines and a
\* last entry.
FileRaising ==
    File(T_10_0_0_1 \o <<SP>> \o s_a \o <<NL>>
         \o T_10_0_0_2 \o <<SP>> \o s_b \o <<SP, HASH, SP, "x", TAB, "y", NL>>
         \o <<NL>>
         \o <<HASH, SP, "c", NL>>
         \o <<"b", "a", "d", SP, "a", NL>>
         \o T_10_0_0_1 \o <<NL>>
         \o T_6_1 \o <<SP>> \o s_d \o <<NL>>)

\* FileA after another program has appended the line "::1 d # x\n" to it.
FileEdited ==
    File(FileA.text \o T_6_1 \o <<SP>> \o s_d \o <<SP, HASH, SP>> \o s_x \o <<NL>>)

\* The files HostsFileParser.parse is called on directly.
ParseFiles == {Missing, Unreadable, FileMixed, FileRaising}

-----------------------------------------------------------------------------
(* The line codec applied to constructor arguments: Host(...) is built      *)
(* (or rejected by __post_init__), encoded with to_line and decoded with    *)
(* from_line.                                                               *)

NoCall ==
    [op |-> "none", query |-> <<>>, host |-> None, allow |-> FALSE, raised |-> "none",
     result |-> <<>>, count |-> 0, pre |-> <<>>, wasLoaded |-> FALSE, loads |-> 0,
     index |-> 0, flag |-> FALSE, backup |-> FALSE, write_header |-> TRUE,
     file |-> Missing, path |-> None]

NoWrite == [hosts |-> <<>>, backup |-> FALSE]

NoReEncoding == [to_line |-> <<>>, str |-> <<>>]

NoWriters == [w \in {} |-> "idle"]

\* No exception in flight in write; raised names the step that raised.
NoError == [raised |-> "none", unlink |-> "none"]

CodecIdle == /\ e = Host(IP_10_0_0_1, s_a, <<>>, None) /\ cpc = "idle"
             /\ line = <<>> /\ decoded = Skip /\ reenc = NoReEncoding
CollIdle  == /\ _hosts = None /\ _loaded = FALSE /\ file_path = "target" /\ last = NoCall
WriteIdle == /\ wpc = "idle" /\ warg = NoWrite /\ wpre = Missing /\ wwritten = 0
             /\ werr = NoError
             /\ writers = NoWriters
NoFiles   == [p \in Paths |-> Missing]

\* Lines given to Host.from_line directly.
InputLines ==
    {T_10_0_0_1 \o <<SP>> \o s_a,
     T_10_0_0_1 \o <<SP>> \o s_a \o <<SP, HASH>>,
     T_10_0_0_1 \o <<SP>> \o s_a \o <<SP, HASH, SP, SP, SP, NL>>,
     T_10_0_0_1 \o <<SP>> \o s_a \o <<HASH>>,
     T_10_0_0_1 \o <<TAB>> \o s_a \o <<TAB>> \o s_b \o <<SP, HASH, SP>> \o s_x \o <<NL>>,
     T_10_0_0_1 \o <<SP>> \o s_a \o <<SP, HASH, SP, "x", TAB, "y">>,
     T_6_1_long \o <<SP>> \o s_d \o <<SP, HASH, HASH>>,
     T_10_0_0_1 \o <<SP, HASH>>,
     <<"b", "a", "d", SP, "a", SP, HASH>>,
     <<HASH, SP, "c">>,
     <<SP, NL>>,
     <<>>,
     T_10_0_0_1 \o <<TAB>> \o s_a \o <<TAB>> \o s_b \o <<NL>>,
     T_10_0_0_1 \o <<TAB>> \o s_A \o <<NL>>,
     T_6_1 \o <<TAB>> \o s_d \o <<NL>>,
     T_6_1_long \o <<TAB>> \o s_d \o <<NL>>,
     T_10_0_0_1 \o <<SP>> \o s_a \o <<SP, HASH, SP, "x", NL, "y">>,
     T_10_0_0_1 \o <<SP>> \o s_a \o <<CR>> \o s_b,
     T_10_0_0_1 \o <<SP, TAB>> \o s_a \o <<SP, SP>> \o s_b \o <<TAB>> \o s_c
         \o <<HASH>> \o s_x \o <<SP, HASH>> \o s_d \o <<SP>>}

\* Either the constructor is about to be called on arguments, or from_line
\* on a line.
InitCodec ==
    /\ \/ /\ e \in CtorArgs
          /\ cpc = "new"
          /\ line = <<>>
       \/ /\ e = Host(IP_10_0_0_1, s_a, <<>>, None)
          /\ cpc = "line"
          /\ line \in InputLines
    /\ decoded = Skip
    /\ reenc = NoReEncoding
    /\ fs = NoFiles
    /\ CollIdle
    /\ WriteIdle

\* Host(...): the dataclass constructor followed by __post_init__.
Construct ==
    /\ cpc = "new"
    /\ cpc' = IF __post_init__(e) = "ok" THEN "built" ELSE "rejected"
    /\ UNCHANGED <<e, line, decoded, reenc, fs, collVars, writeVars>>

\* e.to_line()
ToLine ==
    /\ cpc = "built"
    /\ line' = to_line(e)
    /\ cpc' = "encoded"
    /\ UNCHANGED <<e, decoded, reenc, fs, collVars, writeVars>>

\* Host.from_line(e.to_line())
FromLine ==
    /\ cpc = "encoded"
    /\ decoded' = from_line(line)
    /\ cpc' = "decoded"
    /\ UNCHANGED <<e, line, reenc, fs, collVars, writeVars>>

\* Host.from_line(line) on an input line
DecodeLine ==
    /\ cpc = "line"
    /\ decoded' = from_line(line)
    /\ cpc' = "parsed"
    /\ UNCHANGED <<e, line, reenc, fs, collVars, writeVars>>

\* host = Host.from_line(line) gave a Host: host.to_line() and str(host)
ReEncode ==
    /\ cpc = "parsed"
    /\ decoded.tag = "host"
    /\ reenc' = [to_line |-> to_line(decoded.host), str |-> __str__(decoded.host)]
    /\ cpc' = "reencoded"
    /\ UNCHANGED <<e, line, decoded, fs, collVars, writeVars>>

NextCodec == Construct \/ ToLine \/ FromLine \/ DecodeLine \/ ReEncode

SpecCodec == InitCodec /\ [][NextCodec]_vars

-----------------------------------------------------------------------------
(* hosts.py: the Hosts collection.  Every call records itself in `last`:    *)
(* its arguments, the exception it raised ("none" when it returned), its    *)
(* result, the entries as the call found them once loaded (pre), whether    *)
(* the collection was Loaded when the call began, and how many times the    *)
(* call read the file.  A call with an index, a boolean answer or the      *)
(* keyword arguments of save records them in index, flag, backup and       *)
(* write_header.  file is the file at file_path as the call found it; a    *)
(* direct call of HostsFileParser.parse records the file it was given.     *)

Call(op, query, host, allow, raised, result, count, pre, loads) ==
    [op |-> op, query |-> query, host |-> host, allow |-> allow, raised |-> raised,
     result |-> result, count |-> count, pre |-> pre, wasLoaded |-> _loaded,
     loads |-> loads, index |-> 0, flag |-> FALSE, backup |-> FALSE,
     write_header |-> TRUE, file |-> fs[file_path], path |-> None]

\* Hosts.load without its FileNotFoundError handler.
load_reraise ==
    LET r == parse(fs[file_path])
    IN  [raised |-> r.raised, hosts |-> r.hosts, loads |-> 1]

\* Hosts.load while self.file_path is path: the entries it installs, or the
\* exception it re-raises.
load_from(path) ==
    LET r == parse(fs[path])
    IN  IF r.raised = "none" THEN [raised |-> "none", hosts |-> r.hosts, loads |-> 1]
        ELSE IF r.raised = "FileNotFoundError"
             THEN [raised |-> "none", hosts |-> <<>>, loads |-> 1]
        ELSE [raised |-> r.raised, hosts |-> <<>>, loads |-> 1]

\* Hosts.load keeping the entries of a collection that is already loaded.
load_keep_when_loaded ==
    IF _loaded THEN [raised |-> "none", hosts |-> _hosts[1], loads |-> 1]
    ELSE load_from(file_path)

\* Hosts.load
load == load_from(file_path)

\* _ensure_loaded that never reads the file.
_ensure_loaded_skip ==
    [raised |-> "none", hosts |-> IF _loaded THEN _hosts[1] ELSE <<>>, loads |-> 0]

\* _ensure_loaded reading the file on every call.
_ensure_loaded_always == load

\* Hosts._ensure_loaded
_ensure_loaded ==
    IF ~_loaded THEN load
    ELSE [raised |-> "none", hosts |-> _hosts[1], loads |-> 0]

\* Hosts._ensure_loaded while self.file_path is path
_ensure_loaded_at(path) ==
    IF ~_loaded THEN load_from(path)
    ELSE [raised |-> "none", hosts |-> _hosts[1], loads |-> 0]

\* A failure inside _ensure_loaded that leaves the collection Unloaded and
\* without a list.
LoadFailedUnloads(op, query, host, allow, lo) ==
    /\ last' = Call(op, query, host, allow, lo.raised, <<>>, 0, <<>>, lo.loads)
    /\ _hosts' = None
    /\ _loaded' = FALSE

\* A call that fails inside _ensure_loaded: the exception propagates and
\* nothing is assigned.
LoadFailed(op, query, host, allow, lo) ==
    /\ last' = Call(op, query, host, allow, lo.raised, <<>>, 0, <<>>, lo.loads)
    /\ UNCHANGED <<_hosts, _loaded>>

\* load() dropping the entries in memory when the read fails.
LoadClearsOnError ==
    /\ IF load.raised = "none"
       THEN /\ _hosts' = Some(load.hosts)
            /\ _loaded' = TRUE
            /\ last' = Call("load", <<>>, None, FALSE, "none",
                            IF _loaded THEN _hosts[1] ELSE <<>>, 0, load.hosts, 1)
       ELSE /\ _hosts' = Some(<<>>)
            /\ _loaded' = TRUE
            /\ last' = Call("load", <<>>, None, FALSE, load.raised, <<>>, 0, <<>>, 1)
    /\ UNCHANGED <<fs, file_path, codecVars, writeVars>>

\* load(); result records the entries the call replaced.
Load ==
    /\ IF load.raised = "none"
       THEN /\ _hosts' = Some(load.hosts)
            /\ _loaded' = TRUE
            /\ last' = Call("load", <<>>, None, FALSE, "none",
                            IF _loaded THEN _hosts[1] ELSE <<>>, 0, load.hosts, 1)
       ELSE LoadFailed("load", <<>>, None, FALSE, load)
    /\ UNCHANGED <<fs, file_path, codecVars, writeVars>>

\* The list comprehension of Hosts.find over the entries hs.
RECURSIVE find(_, _)
find(hs, query) ==
    IF hs = <<>> THEN <<>>
    ELSE (IF matches(Head(hs), query) THEN <<Head(hs)>> ELSE <<>>) \o find(Tail(hs), query)

\* find(query)
Find(query) ==
    \E lo \in {_ensure_loaded} :
    /\ IF lo.raised # "none" THEN LoadFailed("find", query, None, FALSE, lo)
       ELSE /\ _hosts' = Some(lo.hosts)
            /\ _loaded' = TRUE
            /\ last' = Call("find", query, None, FALSE, "none", find(lo.hosts, query), 0,
                            lo.hosts, lo.loads)
    /\ UNCHANGED <<fs, file_path, codecVars, writeVars>>

\* find_one returning the last match instead of the first.
find_one_last(hs, query) ==
    LET results == find(hs, query)
    IN  IF results # <<>> THEN <<results[Len(results)]>> ELSE <<>>

\* results[0] if results else None
find_one(hs, query) ==
    LET results == find(hs, query)
    IN  IF results # <<>> THEN <<results[1]>> ELSE <<>>

\* find_one(query)
FindOne(query) ==
    \E lo \in {_ensure_loaded} :
    /\ IF lo.raised # "none" THEN LoadFailed("find_one", query, None, FALSE, lo)
       ELSE /\ _hosts' = Some(lo.hosts)
            /\ _loaded' = TRUE
            /\ last' = Call("find_one", query, None, FALSE, "none",
                            find_one(lo.hosts, query), 0, lo.hosts, lo.loads)
    /\ UNCHANGED <<fs, file_path, codecVars, writeVars>>

\* Names that normal attribute lookup finds on a Hosts object (among the
\* names of the model): __getattr__ is not called for them.
RealAttributes == {s_find, s__hosts}

\* hosts.<name>
GetAttr(name) ==
    /\ IF name \in RealAttributes
       THEN /\ last' = Call("attribute", name, None, FALSE, "none", <<>>, 0, <<>>, 0)
            /\ UNCHANGED <<_hosts, _loaded>>
       ELSE IF Head(name) = "_"
       THEN /\ last' = Call("getattr", name, None, FALSE, "AttributeError", <<>>, 0, <<>>, 0)
            /\ UNCHANGED <<_hosts, _loaded>>
       ELSE \E lo \in {_ensure_loaded} :
            IF lo.raised # "none" THEN LoadFailed("getattr", name, None, FALSE, lo)
            ELSE /\ _hosts' = Some(lo.hosts)
                 /\ _loaded' = TRUE
                 /\ last' = Call("getattr", name, None, FALSE, "none",
                                 find_one(lo.hosts, name), 0, lo.hosts, lo.loads)
    /\ UNCHANGED <<fs, file_path, codecVars, writeVars>>

Range(s) == {s[i] : i \in 1..Len(s)}

\* The duplicate test of Hosts.add without the address comparison.
ConflictNamesOnly(existing, host) ==
    \/ existing.hostname = host.hostname
    \/ Range(all_names(existing)) \cap Range(all_names(host)) # {}

\* The duplicate test of Hosts.add comparing the hostnames alone.
ConflictHostnameOnly(existing, host) == existing.hostname = host.hostname

\* The duplicate test of Hosts.add for one existing entry.
Conflict(existing, host) ==
    \/ existing.hostname = host.hostname
    \/ existing.ip_address = host.ip_address
    \/ Range(all_names(existing)) \cap Range(all_names(host)) # {}

\* The scan of Hosts.add: the position of the first existing entry that
\* conflicts with host, 0 when the loop ends without raising.
RECURSIVE FirstConflict(_, _, _)
FirstConflict(hs, host, i) ==
    IF i > Len(hs) THEN 0
    ELSE IF Conflict(hs[i], host) THEN i
    ELSE FirstConflict(hs, host, i + 1)

\* Hosts.add appending before it checks for duplicates.
add_append_before_check(hs, host, allow_duplicates) ==
    IF ~allow_duplicates /\ FirstConflict(hs, host, 1) # 0
    THEN [raised |-> "DuplicateEntryError", hosts |-> Append(hs, host)]
    ELSE [raised |-> "none", hosts |-> Append(hs, host)]

\* Hosts.add inserting the new entry at the front.
add_prepend(hs, host, allow_duplicates) ==
    IF ~allow_duplicates /\ FirstConflict(hs, host, 1) # 0
    THEN [raised |-> "DuplicateEntryError", hosts |-> hs]
    ELSE [raised |-> "none", hosts |-> <<host>> \o hs]

\* The body of Hosts.add on the loaded entries hs: the exception raised and
\* the entries afterwards.
add(hs, host, allow_duplicates) ==
    IF ~allow_duplicates /\ FirstConflict(hs, host, 1) # 0
    THEN [raised |-> "DuplicateEntryError", hosts |-> hs]
    ELSE [raised |-> "none", hosts |-> Append(hs, host)]

\* add(host, allow_duplicates)
Add(host, allow_duplicates) ==
    \E lo \in {_ensure_loaded} :
    \E r \in {add(lo.hosts, host, allow_duplicates)} :
    /\ IF lo.raised # "none" THEN LoadFailed("add", <<>>, Some(host), allow_duplicates, lo)
       ELSE /\ r.raised # "none" \/ Len(lo.hosts) < MaxHosts
            /\ _loaded' = TRUE
            /\ _hosts' = Some(r.hosts)
            /\ last' = Call("add", <<>>, Some(host), allow_duplicates, r.raised,
                            <<>>, 0, lo.hosts, lo.loads)
    /\ UNCHANGED <<fs, file_path, codecVars, writeVars>>

\* list.remove(x): the list without its first element equal to x.
RECURSIVE ListRemove(_, _)
ListRemove(hs, x) ==
    IF hs = <<>> THEN <<>>
    ELSE IF Head(hs) = x THEN Tail(hs)
    ELSE <<Head(hs)>> \o ListRemove(Tail(hs), x)

\* The loop of Hosts.remove stopped after its first round.
RemoveEachOnce(hs, to_remove) ==
    IF to_remove = <<>> THEN hs ELSE ListRemove(hs, Head(to_remove))

\* The loop of Hosts.remove: self._hosts.remove(host) for each host found.
RECURSIVE RemoveEach(_, _)
RemoveEach(hs, to_remove) ==
    IF to_remove = <<>> THEN hs
    ELSE RemoveEach(ListRemove(hs, Head(to_remove)), Tail(to_remove))

\* remove(query)
Remove(query) ==
    \E lo \in {_ensure_loaded} :
    \E to_remove \in {find(lo.hosts, query)} :
    /\ IF lo.raised # "none" THEN LoadFailed("remove", query, None, FALSE, lo)
       ELSE /\ _hosts' = Some(RemoveEach(lo.hosts, to_remove))
            /\ _loaded' = TRUE
            /\ last' = Call("remove", query, None, FALSE, "none", <<>>, Len(to_remove),
                            lo.hosts, lo.loads)
    /\ UNCHANGED <<fs, file_path, codecVars, writeVars>>

\* len(hosts)
LenCall ==
    \E lo \in {_ensure_loaded} :
    /\ IF lo.raised # "none" THEN LoadFailed("len", <<>>, None, FALSE, lo)
       ELSE /\ _hosts' = Some(lo.hosts)
            /\ _loaded' = TRUE
            /\ last' = Call("len", <<>>, None, FALSE, "none", <<>>, Len(lo.hosts),
                            lo.hosts, lo.loads)
    /\ UNCHANGED <<fs, file_path, codecVars, writeVars>>

\* The integer indexes the calls are made with.
Indices == {-4, -1, 0, 3}

\* list[index] with an index outside the list taken as its nearest end.
PositionClipped(hs, index) ==
    IF index < 0
    THEN (IF index + Len(hs) + 1 < 1 THEN 1 ELSE index + Len(hs) + 1)
    ELSE (IF index + 1 > Len(hs) THEN Len(hs) ELSE index + 1)

\* list[index] for an int index: the position (from 1) it names, a negative
\* index counting from the end.
Position(hs, index) == IF index < 0 THEN index + Len(hs) + 1 ELSE index + 1

\* hosts[index]
GetItem(index) ==
    \E lo \in {_ensure_loaded} :
    /\ IF lo.raised # "none"
       THEN /\ last' = [Call("getitem", <<>>, None, FALSE, lo.raised, <<>>, 0, <<>>,
                             lo.loads) EXCEPT !.index = index]
            /\ UNCHANGED <<_hosts, _loaded>>
       ELSE /\ _hosts' = Some(lo.hosts)
            /\ _loaded' = TRUE
            /\ last' = [(IF Position(lo.hosts, index) \in 1..Len(lo.hosts)
                         THEN Call("getitem", <<>>, None, FALSE, "none",
                                   <<lo.hosts[Position(lo.hosts, index)]>>, 0,
                                   lo.hosts, lo.loads)
                         ELSE Call("getitem", <<>>, None, FALSE, "IndexError", <<>>, 0,
                                   lo.hosts, lo.loads))
                        EXCEPT !.index = index]
    /\ UNCHANGED <<fs, file_path, codecVars, writeVars>>

\* for h in hosts: the iteration of a sequence reads hosts[0], hosts[1], ...
\* through __getitem__ until it raises IndexError; the first read loads.
Iter ==
    \E lo \in {_ensure_loaded} :
    /\ IF lo.raised # "none" THEN LoadFailed("iter", <<>>, None, FALSE, lo)
       ELSE /\ _hosts' = Some(lo.hosts)
            /\ _loaded' = TRUE
            /\ last' = Call("iter", <<>>, None, FALSE, "none", lo.hosts, Len(lo.hosts),
                            lo.hosts, lo.loads)
    /\ UNCHANGED <<fs, file_path, codecVars, writeVars>>

\* hosts[index] = value
SetItem(index, value) ==
    \E lo \in {_ensure_loaded} :
    /\ IF lo.raised # "none"
       THEN /\ last' = [Call("setitem", <<>>, Some(value), FALSE, lo.raised, <<>>, 0,
                             <<>>, lo.loads) EXCEPT !.index = index]
            /\ UNCHANGED <<_hosts, _loaded>>
       ELSE /\ _loaded' = TRUE
            /\ IF Position(lo.hosts, index) \in 1..Len(lo.hosts)
               THEN /\ _hosts' = Some([lo.hosts EXCEPT ![Position(lo.hosts, index)] = value])
                    /\ last' = [Call("setitem", <<>>, Some(value), FALSE, "none", <<>>, 0,
                                     lo.hosts, lo.loads) EXCEPT !.index = index]
               ELSE /\ _hosts' = Some(lo.hosts)
                    /\ last' = [Call("setitem", <<>>, Some(value), FALSE, "IndexError",
                                     <<>>, 0, lo.hosts, lo.loads) EXCEPT !.index = index]
    /\ UNCHANGED <<fs, file_path, codecVars, writeVars>>

\* del list[index] for a position p inside the list.
ListDelete(hs, p) == SubSeq(hs, 1, p - 1) \o SubSeq(hs, p + 1, Len(hs))

\* del hosts[index]
DelItem(index) ==
    \E lo \in {_ensure_loaded} :
    /\ IF lo.raised # "none"
       THEN /\ last' = [Call("delitem", <<>>, None, FALSE, lo.raised, <<>>, 0, <<>>,
                             lo.loads) EXCEPT !.index = index]
            /\ UNCHANGED <<_hosts, _loaded>>
       ELSE /\ _loaded' = TRUE
            /\ IF Position(lo.hosts, index) \in 1..Len(lo.hosts)
               THEN /\ _hosts' = Some(ListDelete(lo.hosts, Position(lo.hosts, index)))
                    /\ last' = [Call("delitem", <<>>, None, FALSE, "none", <<>>, 0,
                                     lo.hosts, lo.loads) EXCEPT !.index = index]
               ELSE /\ _hosts' = Some(lo.hosts)
                    /\ last' = [Call("delitem", <<>>, None, FALSE, "IndexError", <<>>, 0,
                                     lo.hosts, lo.loads) EXCEPT !.index = index]
    /\ UNCHANGED <<fs, file_path, codecVars, writeVars>>

\* list.insert(index, value) putting the value at the end whatever the index.
ListInsertAppend(hs, index, value) == Append(hs, value)

\* list.insert(index, value): the index is clipped to the ends of the list.
ListInsert(hs, index, value) ==
    LET p == Position(hs, index)
        k == IF p < 1 THEN 1 ELSE IF p > Len(hs) + 1 THEN Len(hs) + 1 ELSE p
    IN  SubSeq(hs, 1, k - 1) \o <<value>> \o SubSeq(hs, k, Len(hs))

\* The hosts given to add(..., allow_duplicates=True) and to the membership
\* test; insert and index assignment are given h_d.
InsertHosts == {h_a1, h_d}

\* insert(index, value)
Insert(index, value) ==
    \E lo \in {_ensure_loaded} :
    /\ IF lo.raised # "none"
       THEN /\ last' = [Call("insert", <<>>, Some(value), FALSE, lo.raised, <<>>, 0,
                             <<>>, lo.loads) EXCEPT !.index = index]
            /\ UNCHANGED <<_hosts, _loaded>>
       ELSE /\ Len(lo.hosts) < MaxHosts
            /\ _hosts' = Some(ListInsert(lo.hosts, index, value))
            /\ _loaded' = TRUE
            /\ last' = [Call("insert", <<>>, Some(value), FALSE, "none", <<>>, 0,
                             lo.hosts, lo.loads) EXCEPT !.index = index]
    /\ UNCHANGED <<fs, file_path, codecVars, writeVars>>

\* The strings tried for membership.
ContainsItems == {s_a, s_A, T_6_1_long}

\* query in hosts, for a str: len(self.find(item)) > 0
ContainsStr(item) ==
    \E lo \in {_ensure_loaded} :
    /\ IF lo.raised # "none" THEN LoadFailed("contains", item, None, FALSE, lo)
       ELSE /\ _hosts' = Some(lo.hosts)
            /\ _loaded' = TRUE
            /\ last' = [Call("contains", item, None, FALSE, "none", <<>>, 0,
                             lo.hosts, lo.loads)
                        EXCEPT !.flag = Len(find(lo.hosts, item)) > 0]
    /\ UNCHANGED <<fs, file_path, codecVars, writeVars>>

\* host in hosts, for a Host: item in self._hosts
ContainsHost(item) ==
    \E lo \in {_ensure_loaded} :
    /\ IF lo.raised # "none" THEN LoadFailed("contains", <<>>, Some(item), FALSE, lo)
       ELSE /\ _hosts' = Some(lo.hosts)
            /\ _loaded' = TRUE
            /\ last' = [Call("contains", <<>>, Some(item), FALSE, "none", <<>>, 0,
                             lo.hosts, lo.loads)
                        EXCEPT !.flag = item \in Range(lo.hosts)]
    /\ UNCHANGED <<fs, file_path, codecVars, writeVars>>

\* repr(hosts): reads _loaded and, when loaded, the length; flag records
\* whether the text shows the entry count.
Repr ==
    /\ last' = [Call("repr", <<>>, None, FALSE, "none", <<>>,
                     IF _loaded THEN Len(_hosts[1]) ELSE 0, <<>>, 0)
                EXCEPT !.flag = _loaded]
    /\ UNCHANGED <<_hosts, _loaded, fs, file_path, codecVars, writeVars>>

\* str(hosts): the text is made of file_path alone.
Str ==
    /\ last' = Call("str", <<>>, None, FALSE, "none", <<>>, 0, <<>>, 0)
    /\ UNCHANGED <<_hosts, _loaded, fs, file_path, codecVars, writeVars>>

\* parse(f) for each file of ParseFiles, computed once.
ParseResults == [f \in ParseFiles |-> parse(f)]

\* HostsFileParser.parse(path) called directly, on a path that holds f: a
\* static method, it touches no Hosts object.
ParseCall(f) ==
    /\ last' = [Call("parse", <<>>, None, FALSE, ParseResults[f].raised,
                     ParseResults[f].hosts, Len(ParseResults[f].hosts), <<>>, 0)
                EXCEPT !.file = f]
    /\ UNCHANGED <<_hosts, _loaded, fs, file_path, codecVars, writeVars>>

\* The parameters of HostsFileParser.write, and the keyword arguments
\* Hosts.save passes to it beside the two positional ones.
WriteParameters == {"file_path", "hosts", "backup"}
SaveKeywords    == {"backup", "write_header"}

\* save(backup, write_header): the call of HostsFileParser.write binds its
\* arguments before the body runs; a keyword that is no parameter raises
\* TypeError and nothing is written.
Save(backup, write_header) ==
    \E lo \in {_ensure_loaded} :
    /\ IF lo.raised # "none"
       THEN /\ last' = [Call("save", <<>>, None, FALSE, lo.raised, <<>>, 0, <<>>,
                             lo.loads)
                        EXCEPT !.backup = backup, !.write_header = write_header]
            /\ UNCHANGED <<_hosts, _loaded, writeVars>>
       ELSE /\ _hosts' = Some(lo.hosts)
            /\ _loaded' = TRUE
            /\ IF SaveKeywords \subseteq WriteParameters
               THEN /\ wpc' = "backup"
                    /\ warg' = [hosts |-> lo.hosts, backup |-> backup]
                    /\ wpre' = fs["target"]
                    /\ wwritten' = 0
                    /\ UNCHANGED <<writers, werr>>
                    /\ last' = [Call("save", <<>>, None, FALSE, "none", <<>>, 0,
                                     lo.hosts, lo.loads)
                                EXCEPT !.backup = backup, !.write_header = write_header]
               ELSE /\ last' = [Call("save", <<>>, None, FALSE, "TypeError", <<>>, 0,
                                     lo.hosts, lo.loads)
                                EXCEPT !.backup = backup, !.write_header = write_header]
                    /\ UNCHANGED writeVars
    /\ UNCHANGED <<fs, file_path, codecVars>>

\* The paths persist is called with: None (no argument) and another path.
PersistPaths == {None, Some("other")}

\* persist(path): save() with self.file_path set to path, when one is given,
\* for the time of the call; the finally clause puts file_path back.  The
\* write save would make is taken as one step.
Persist(path) ==
    \E fp \in {IF path = None THEN file_path ELSE path[1]} :
    \E lo \in {_ensure_loaded_at(fp)} :
    /\ IF lo.raised # "none"
       THEN /\ last' = [Call("persist", <<>>, None, FALSE, lo.raised, <<>>, 0, <<>>,
                             lo.loads) EXCEPT !.path = path, !.file = fs[fp]]
            /\ UNCHANGED <<_hosts, _loaded, fs>>
       ELSE /\ _hosts' = Some(lo.hosts)
            /\ _loaded' = TRUE
            /\ IF SaveKeywords \subseteq WriteParameters
               THEN /\ fs' = [fs EXCEPT ![fp] =
                                 [Output(lo.hosts) EXCEPT !.mode =
                                     IF fs[fp].exists /\ ~WorldWritable(fs[fp].mode)
                                     THEN fs[fp].mode ELSE Mode644]]
                    /\ last' = [Call("persist", <<>>, None, FALSE, "none", <<>>, 0,
                                     lo.hosts, lo.loads)
                                EXCEPT !.path = path, !.file = fs[fp]]
               ELSE /\ last' = [Call("persist", <<>>, None, FALSE, "TypeError", <<>>, 0,
                                     lo.hosts, lo.loads)
                                EXCEPT !.path = path, !.file = fs[fp]]
                    /\ UNCHANGED fs
    /\ file_path' = file_path
    /\ UNCHANGED <<codecVars, writeVars>>

\* Another program rewrites the file behind the collection's back (FileA
\* becomes FileEdited).
ExternalEdit ==
    /\ fs[file_path] = FileA
    /\ fs' = [fs EXCEPT ![file_path] = FileEdited]
    /\ UNCHANGED <<codecVars, collVars, writeVars>>

\* The file is taken away from the program behind the collection's back:
\* from now on reading it fails (permission denied).
ExternalDeny ==
    /\ fs[file_path] = FileA
    /\ fs' = [fs EXCEPT ![file_path] = Unreadable]
    /\ UNCHANGED <<codecVars, collVars, writeVars>>

\* The methods of the context manager protocol that class Hosts defines or
\* inherits from MutableSequence: none.
ContextManagerMethods == {}

\* with hosts: hosts.add(host); and, when fails, raise RuntimeError.  The with
\* statement looks up __enter__ and __exit__ on the class before it runs the
\* block; without them it raises TypeError and the block is not entered.
With(host, fails) ==
    /\ ~({"__enter__", "__exit__"} \subseteq ContextManagerMethods)
    /\ last' = [Call("with", <<>>, Some(host), FALSE, "TypeError", <<>>, 0, <<>>, 0)
                EXCEPT !.flag = fails]
    /\ UNCHANGED <<_hosts, _loaded, fs, file_path, codecVars, writeVars>>

Init ==
    /\ CodecIdle
    /\ fs \in {[NoFiles EXCEPT !["target"] = f] : f \in InitialFiles}
    /\ CollIdle
    /\ WriteIdle

Next ==
    \/ Load
    \/ \E q \in Queries : Find(q)
    \/ \E q \in Queries : FindOne(q)
    \/ \E n \in AttrNames : GetAttr(n)
    \/ \E h \in AddHosts : Add(h, FALSE)
    \/ \E h \in InsertHosts : Add(h, TRUE)
    \/ \E q \in Queries : Remove(q)
    \/ \E b \in BOOLEAN, w \in BOOLEAN : Save(b, w)
    \/ LenCall
    \/ \E i \in Indices : GetItem(i)
    \/ Iter
    \/ \E i \in Indices : Insert(i, h_d)
    \/ \E q \in ContainsItems : ContainsStr(q)
    \/ \E h \in InsertHosts : ContainsHost(h)
    \/ \E f \in ParseFiles : ParseCall(f)
    \/ Repr
    \/ Str
    \/ \E f \in BOOLEAN : With(h_d, f)
    \/ \E i \in Indices : SetItem(i, h_d)
    \/ \E i \in Indices : DelItem(i)
    \/ ExternalEdit
    \/ \E p \in PersistPaths : Persist(p)

Spec == Init /\ [][Next]_vars

\* A collection that starts empty (no file at its path) and is changed by
\* add(host) with the default allow_duplicates=False and by remove(query)
\* only.
InitAddRemove ==
    /\ CodecIdle
    /\ fs = NoFiles
    /\ CollIdle
    /\ WriteIdle

NextAddRemove ==
    \/ \E h \in AddHosts : Add(h, FALSE)
    \/ \E q \in Queries : Remove(q)

SpecAddRemove == InitAddRemove /\ [][NextAddRemove]_vars

\* A collection over a file that other programs rewrite or take away while
\* the collection is in use: every operation of Hosts, each on few inputs.
ReloadFiles   == {Missing, FileA}
ReloadQueries == {s_a, T_6_1}
ReloadIndices == {0, 3}

InitReload ==
    /\ CodecIdle
    /\ fs \in {[NoFiles EXCEPT !["target"] = f] : f \in ReloadFiles}
    /\ CollIdle
    /\ WriteIdle

NextReload ==
    \/ Load
    \/ ExternalEdit
    \/ ExternalDeny
    \/ \E q \in ReloadQueries : Find(q)
    \/ \E q \in ReloadQueries : FindOne(q)
    \/ \E n \in {s_a, s__a} : GetAttr(n)
    \/ Add(h_d, FALSE)
    \/ Add(h_a1, TRUE)
    \/ \E q \in ReloadQueries : Remove(q)
    \/ Save(FALSE, TRUE)
    \/ \E p \in PersistPaths : Persist(p)
    \/ LenCall
    \/ \E i \in ReloadIndices : GetItem(i)
    \/ Iter
    \/ \E i \in ReloadIndices : Insert(i, h_d)
    \/ \E i \in ReloadIndices : SetItem(i, h_d)
    \/ \E i \in ReloadIndices : DelItem(i)
    \/ ContainsStr(s_a)
    \/ ContainsHost(h_d)
    \/ ParseCall(FileMixed)
    \/ Repr
    \/ Str
    \/ With(h_d, FALSE)

SpecReload == InitReload /\ [][NextReload]_vars

-----------------------------------------------------------------------------
(* parser.py: HostsFileParser.write, one action per step.  Any step from    *)
(* the creation of the temp file to the rename may fail with an exception   *)
(* (WriteFails); the except clause then removes the temp file and           *)
(* re-raises.                                                               *)

\* The lists of at most n elements of S.
RECURSIVE SeqsUpTo(_, _)
SeqsUpTo(S, n) ==
    IF n = 0 THEN {<<>>}
    ELSE LET shorter == SeqsUpTo(S, n - 1)
         IN  shorter \cup {Append(q, x) : q \in {r \in shorter : Len(r) = n - 1}, x \in S}

WriteHosts == {h_a1, h_d}
\* The target before the writes: absent, a file of another owner kept to
\* that owner (0o600), FileA with mode 0o644 and with mode 0o666.
WriteInitialFiles ==
    {Missing, Unreadable, FileA, [FileA EXCEPT !.mode = Mode666]}

\* The temp file written straight onto the target path (a non-atomic writer).
temp_path_is_target == "target"

\* temp_path: the path mkstemp returns, where the content is written.
temp_path == "temp"

\* HostsFileParser.write(file_path, hosts, backup) is called.
WriteCall(hs, backup) ==
    /\ wpc = "idle"
    /\ wpc' = "backup"
    /\ warg' = [hosts |-> hs, backup |-> backup]
    /\ wpre' = fs["target"]
    /\ wwritten' = 0
    /\ UNCHANGED <<fs, werr, writers, codecVars, collVars>>

\* The backup step going on to mkstemp when the copy fails.
BackupBestEffort ==
    /\ wpc = "backup"
    /\ IF warg.backup /\ fs["target"].exists
       THEN \/ /\ fs["target"].readable
               /\ fs' = [fs EXCEPT !["backup"] = fs["target"]]
            \/ fs' \in {fs, [fs EXCEPT !["backup"] = File(<<>>)]}
       ELSE UNCHANGED fs
    /\ wpc' = "mkstemp"
    /\ UNCHANGED <<warg, wpre, wwritten, werr, writers, codecVars, collVars>>

\* if backup and file_path.exists(): shutil.copy2(file_path, backup_path);
\* an error of the copy is logged and re-raised, outside the try block.
Backup ==
    /\ wpc = "backup"
    /\ IF warg.backup /\ fs["target"].exists
       THEN \/ /\ fs["target"].readable
               /\ fs' = [fs EXCEPT !["backup"] = fs["target"]]
               /\ wpc' = "mkstemp"
               /\ UNCHANGED werr
            \/ /\ fs' \in {fs, [fs EXCEPT !["backup"] = File(<<>>)]}
               /\ wpc' = "failed"
               /\ werr' = [raised |-> "backup", unlink |-> "none"]
       ELSE /\ wpc' = "mkstemp"
            /\ UNCHANGED <<fs, werr>>
    /\ UNCHANGED <<warg, wpre, wwritten, writers, codecVars, collVars>>

\* tempfile.mkstemp(dir=file_path.parent, ...)
Mkstemp ==
    /\ wpc = "mkstemp"
    /\ \/ /\ fs' = [fs EXCEPT ![temp_path] = [File(<<>>) EXCEPT !.mode = Mode600]]
          /\ wpc' = "close_fd"
          /\ UNCHANGED werr
       \/ /\ wpc' = "except_no_temp"
          /\ werr' = [raised |-> "mkstemp", unlink |-> "none"]
          /\ UNCHANGED fs
    /\ UNCHANGED <<warg, wpre, wwritten, writers, codecVars, collVars>>

\* os.close(temp_fd)
CloseFd ==
    /\ wpc = "close_fd"
    /\ wpc' = "open"
    /\ UNCHANGED <<fs, warg, wpre, wwritten, werr, writers, codecVars, collVars>>

\* open(temp_path, 'w', encoding='utf-8')
Open ==
    /\ wpc = "open"
    /\ fs' = [fs EXCEPT ![temp_path].text = <<>>]
    /\ wpc' = "header1"
    /\ UNCHANGED <<warg, wpre, wwritten, werr, writers, codecVars, collVars>>

\* f.write("# Managed by pyhosts\n")
WriteHeader1 ==
    /\ wpc = "header1"
    /\ fs' = [fs EXCEPT ![temp_path].text = @ \o SubSeq(Header, 1, 21)]
    /\ wpc' = "header2"
    /\ UNCHANGED <<warg, wpre, wwritten, werr, writers, codecVars, collVars>>

\* f.write("# https://github.com/igormilovanovic/pyhosts\n\n")
WriteHeader2 ==
    /\ wpc = "header2"
    /\ fs' = [fs EXCEPT ![temp_path].text = @ \o SubSeq(Header, 22, Len(Header))]
    /\ wpc' = "entries"
    /\ UNCHANGED <<warg, wpre, wwritten, werr, writers, codecVars, collVars>>

\* for host in hosts: f.write(host.to_line())
WriteEntry ==
    /\ wpc = "entries"
    /\ wwritten < Len(warg.hosts)
    /\ fs' = [fs EXCEPT ![temp_path].text = @ \o to_line(warg.hosts[wwritten + 1])]
    /\ wwritten' = wwritten + 1
    /\ UNCHANGED <<wpc, warg, wpre, werr, writers, codecVars, collVars>>

\* The end of the with block: the temp file is closed.
CloseFile ==
    /\ wpc = "entries"
    /\ wwritten = Len(warg.hosts)
    /\ wpc' = "chmod"
    /\ UNCHANGED <<fs, warg, wpre, wwritten, werr, writers, codecVars, collVars>>

\* os.chmod(temp_path, 0o644)
Chmod ==
    /\ wpc = "chmod"
    /\ fs' = [fs EXCEPT ![temp_path].mode = Mode644]
    /\ wpc' = "copystat"
    /\ UNCHANGED <<warg, wpre, wwritten, werr, writers, codecVars, collVars>>

\* shutil.copystat(file_path, temp_path) whatever the mode of the target.
CopyStatAlways ==
    /\ wpc = "copystat"
    /\ IF fs["target"].exists
       THEN fs' = [fs EXCEPT ![temp_path].mode = fs["target"].mode]
       ELSE UNCHANGED fs
    /\ wpc' = "rename"
    /\ UNCHANGED <<warg, wpre, wwritten, werr, writers, codecVars, collVars>>

\* if file_path.exists(): the mode of the target is read and, unless it is
\* world-writable, shutil.copystat puts it on the temp file.
CopyStat ==
    /\ wpc = "copystat"
    /\ IF fs["target"].exists /\ ~WorldWritable(fs["target"].mode)
       THEN fs' = [fs EXCEPT ![temp_path].mode = fs["target"].mode]
       ELSE UNCHANGED fs
    /\ wpc' = "rename"
    /\ UNCHANGED <<warg, wpre, wwritten, werr, writers, codecVars, collVars>>

\* temp_path.replace(file_path)
Rename ==
    /\ wpc = "rename"
    /\ fs' = [fs EXCEPT !["target"] = fs[temp_path], ![temp_path] = Missing]
    /\ wpc' = "done"
    /\ UNCHANGED <<warg, wpre, wwritten, werr, writers, codecVars, collVars>>

\* A step inside the try block raises.
WriteFails ==
    /\ wpc \in {"close_fd", "open", "header1", "header2", "entries", "chmod",
                "copystat", "rename"}
    /\ wpc' = "except"
    /\ werr' = [raised |-> wpc, unlink |-> "none"]
    /\ UNCHANGED <<fs, warg, wpre, wwritten, writers, codecVars, collVars>>

\* The except clause re-raising without removing the temp file.
ExceptNoCleanup ==
    /\ wpc \in {"except", "except_no_temp"}
    /\ wpc' = "failed"
    /\ UNCHANGED <<fs, warg, wpre, wwritten, werr, writers, codecVars, collVars>>

\* except Exception: unlink the temp file if it exists (an OSError of
\* unlink is passed over), then re-raise the exception caught.
Except ==
    /\ wpc \in {"except", "except_no_temp"}
    /\ IF wpc = "except" /\ fs[temp_path].exists
       THEN \/ /\ fs' = [fs EXCEPT ![temp_path] = Missing]
               /\ werr' = [werr EXCEPT !.unlink = "done"]
            \/ /\ werr' = [werr EXCEPT !.unlink = "OSError"]
               /\ UNCHANGED fs
       ELSE UNCHANGED <<fs, werr>>
    /\ wpc' = "failed"
    /\ UNCHANGED <<warg, wpre, wwritten, writers, codecVars, collVars>>

\* write has returned or raised; the caller goes on.
WriteReturn ==
    /\ wpc \in {"done", "failed"}
    /\ wpc' = "idle"
    /\ warg' = NoWrite
    /\ wpre' = Missing
    /\ wwritten' = 0
    /\ werr' = NoError
    /\ UNCHANGED <<fs, writers, codecVars, collVars>>

InitWrite ==
    /\ CodecIdle
    /\ fs \in {[NoFiles EXCEPT !["target"] = f] : f \in WriteInitialFiles}
    /\ CollIdle
    /\ WriteIdle

NextWrite ==
    \/ \E hs \in SeqsUpTo(WriteHosts, MaxWrite), b \in BOOLEAN : WriteCall(hs, b)
    \/ Backup
    \/ Mkstemp
    \/ CloseFd
    \/ Open
    \/ WriteHeader1
    \/ WriteHeader2
    \/ WriteEntry
    \/ CloseFile
    \/ Chmod
    \/ CopyStat
    \/ Rename
    \/ WriteFails
    \/ Except
    \/ WriteReturn

SpecWrite == InitWrite /\ [][NextWrite]_vars

-----------------------------------------------------------------------------
(* parser.py: HostsFileParser.write called by two writers on one path with  *)
(* backup=False, their steps taken in any order.  Each writer w is at step  *)
(* writers[w].pc of its own call.                                           *)

Writers == {"w1", "w2"}

\* The entries a call is given.
WriterLists == {<<h_a1>>, <<h_d, h_a1>>}

\* The target before the writers start.
WritersInitialFiles == {Missing, FileA}

IdleWriter == [pc |-> "idle", hosts |-> <<>>, written |-> 0]

\* Both writers given one and the same temp path.
TempShared(w) == "temp"

\* The path mkstemp returns to writer w: a new name for every call.
TempOf(w) == IF w = "w1" THEN "temp" ELSE "temp2"

soloVars == <<wpc, warg, wpre, wwritten, werr>>

\* Writer w calls HostsFileParser.write(file_path, hs); backup is False, so
\* the first step is mkstemp.
W_Call(w, hs) ==
    /\ writers[w].pc = "idle"
    /\ writers' = [writers EXCEPT ![w] = [pc |-> "mkstemp", hosts |-> hs, written |-> 0]]
    /\ UNCHANGED <<fs, soloVars, codecVars, collVars>>

\* tempfile.mkstemp(dir=file_path.parent, ...)
W_Mkstemp(w) ==
    /\ writers[w].pc = "mkstemp"
    /\ \/ /\ fs' = [fs EXCEPT ![TempOf(w)] = [File(<<>>) EXCEPT !.mode = Mode600]]
          /\ writers' = [writers EXCEPT ![w].pc = "close_fd"]
       \/ /\ writers' = [writers EXCEPT ![w].pc = "except_no_temp"]
          /\ UNCHANGED fs
    /\ UNCHANGED <<soloVars, codecVars, collVars>>

\* os.close(temp_fd)
W_CloseFd(w) ==
    /\ writers[w].pc = "close_fd"
    /\ writers' = [writers EXCEPT ![w].pc = "open"]
    /\ UNCHANGED <<fs, soloVars, codecVars, collVars>>

\* open(temp_path, 'w', encoding='utf-8')
W_Open(w) ==
    /\ writers[w].pc = "open"
    /\ fs' = [fs EXCEPT ![TempOf(w)].text = <<>>]
    /\ writers' = [writers EXCEPT ![w].pc = "header1"]
    /\ UNCHANGED <<soloVars, codecVars, collVars>>

\* f.write("# Managed by pyhosts\n")
W_WriteHeader1(w) ==
    /\ writers[w].pc = "header1"
    /\ fs' = [fs EXCEPT ![TempOf(w)].text = @ \o SubSeq(Header, 1, 21)]
    /\ writers' = [writers EXCEPT ![w].pc = "header2"]
    /\ UNCHANGED <<soloVars, codecVars, collVars>>

\* f.write("# https://github.com/igormilovanovic/pyhosts\n\n")
W_WriteHeader2(w) ==
    /\ writers[w].pc = "header2"
    /\ fs' = [fs EXCEPT ![TempOf(w)].text = @ \o SubSeq(Header, 22, Len(Header))]
    /\ writers' = [writers EXCEPT ![w].pc = "entries"]
    /\ UNCHANGED <<soloVars, codecVars, collVars>>

\* for host in hosts: f.write(host.to_line())
W_WriteEntry(w) ==
    /\ writers[w].pc = "entries"
    /\ writers[w].written < Len(writers[w].hosts)
    /\ fs' = [fs EXCEPT ![TempOf(w)].text =
                            @ \o to_line(writers[w].hosts[writers[w].written + 1])]
    /\ writers' = [writers EXCEPT ![w].written = @ + 1]
    /\ UNCHANGED <<soloVars, codecVars, collVars>>

\* The end of the with block: the temp file is closed.
W_CloseFile(w) ==
    /\ writers[w].pc = "entries"
    /\ writers[w].written = Len(writers[w].hosts)
    /\ writers' = [writers EXCEPT ![w].pc = "chmod"]
    /\ UNCHANGED <<fs, soloVars, codecVars, collVars>>

\* os.chmod(temp_path, 0o644)
W_Chmod(w) ==
    /\ writers[w].pc = "chmod"
    /\ fs' = [fs EXCEPT ![TempOf(w)].mode = Mode644]
    /\ writers' = [writers EXCEPT ![w].pc = "stat"]
    /\ UNCHANGED <<soloVars, codecVars, collVars>>

\* if file_path.exists(): original_stat = file_path.stat();
\* if not (original_stat.st_mode & 0o002): ...
W_Stat(w) ==
    /\ writers[w].pc = "stat"
    /\ writers' = [writers EXCEPT ![w].pc =
                      IF fs["target"].exists /\ ~WorldWritable(fs["target"].mode)
                      THEN "copystat" ELSE "rename"]
    /\ UNCHANGED <<fs, soloVars, codecVars, collVars>>

\* shutil.copystat(file_path, temp_path): the mode the target has by now.
W_CopyStat(w) ==
    /\ writers[w].pc = "copystat"
    /\ fs' = [fs EXCEPT ![TempOf(w)].mode = fs["target"].mode]
    /\ writers' = [writers EXCEPT ![w].pc = "rename"]
    /\ UNCHANGED <<soloVars, codecVars, collVars>>

\* temp_path.replace(file_path); it raises if the temp file is not there.
W_Rename(w) ==
    /\ writers[w].pc = "rename"
    /\ IF fs[TempOf(w)].exists
       THEN /\ fs' = [fs EXCEPT !["target"] = fs[TempOf(w)], ![TempOf(w)] = Missing]
            /\ writers' = [writers EXCEPT ![w].pc = "done"]
       ELSE /\ writers' = [writers EXCEPT ![w].pc = "except"]
            /\ UNCHANGED fs
    /\ UNCHANGED <<soloVars, codecVars, collVars>>

\* A step inside the try block of writer w raises.
W_WriteFails(w) ==
    /\ writers[w].pc \in {"close_fd", "open", "header1", "header2", "entries", "chmod",
                          "stat", "copystat", "rename"}
    /\ writers' = [writers EXCEPT ![w].pc = "except"]
    /\ UNCHANGED <<fs, soloVars, codecVars, collVars>>

\* except Exception: unlink the temp file if it exists (an OSError of
\* unlink is passed over), then re-raise.
W_Except(w) ==
    /\ writers[w].pc \in {"except", "except_no_temp"}
    /\ IF writers[w].pc = "except" /\ fs[TempOf(w)].exists
       THEN fs' \in {[fs EXCEPT ![TempOf(w)] = Missing], fs}
       ELSE UNCHANGED fs
    /\ writers' = [writers EXCEPT ![w].pc = "failed"]
    /\ UNCHANGED <<soloVars, codecVars, collVars>>

\* The call of writer w has returned or raised.
W_Return(w) ==
    /\ writers[w].pc \in {"done", "failed"}
    /\ writers' = [writers EXCEPT ![w] = IdleWriter]
    /\ UNCHANGED <<fs, soloVars, codecVars, collVars>>

InitWriters ==
    /\ CodecIdle
    /\ fs \in {[NoFiles EXCEPT !["target"] = f] : f \in WritersInitialFiles}
    /\ CollIdle
    /\ wpc = "idle" /\ warg = NoWrite /\ wpre = Missing /\ wwritten = 0
    /\ werr = NoError
    /\ writers = [w \in Writers |-> IdleWriter]

NextWriters ==
    \/ \E w \in Writers, hs \in WriterLists : W_Call(w, hs)
    \/ \E w \in Writers : W_Mkstemp(w)
    \/ \E w \in Writers : W_CloseFd(w)
    \/ \E w \in Writers : W_Open(w)
    \/ \E w \in Writers : W_WriteHeader1(w)
    \/ \E w \in Writers : W_WriteHeader2(w)
    \/ \E w \in Writers : W_WriteEntry(w)
    \/ \E w \in Writers : W_CloseFile(w)
    \/ \E w \in Writers : W_Chmod(w)
    \/ \E w \in Writers : W_Stat(w)
    \/ \E w \in Writers : W_CopyStat(w)
    \/ \E w \in Writers : W_Rename(w)
    \/ \E w \in Writers : W_WriteFails(w)
    \/ \E w \in Writers : W_Except(w)
    \/ \E w \in Writers : W_Return(w)

SpecWriters == InitWriters /\ [][NextWriters]_vars

-----------------------------------------------------------------------------
(* Properties.                                                              *)

\* A name the line format carries unchanged: non-empty, no whitespace, no '#'.
IsToken(s) == s # <<>> /\ \A i \in 1..Len(s) : ~IsSpace(s[i]) /\ s[i] # HASH

\* A Host whose fields the line format carries unchanged.
CleanHost(h) ==
    /\ IsToken(IpStr(h.ip_address))
    /\ IsToken(h.hostname)
    /\ \A i \in 1..Len(h.aliases) : IsToken(h.aliases[i])
    /\ h.comment # None => (h.comment[1] # <<>> /\ Strip(h.comment[1]) = h.comment[1])

\* C1, as claimed: for every Host e the constructor accepts,
\* Host.from_line(e.to_line()) is a Host equal to e.
C1_RoundTripEveryHost == cpc = "decoded" => decoded = Parsed(e)

\* C1, amended: for every Host e the constructor accepts whose address text,
\* hostname and aliases are non-empty, free of whitespace and of '#', and
\* whose comment is absent or non-empty with no leading or trailing
\* whitespace, Host.from_line(e.to_line()) is a Host equal to e.
C1_RoundTripCleanHost == (cpc = "decoded" /\ CleanHost(e)) => decoded = Parsed(e)

C1_Witness ==
    /\ cpc = "decoded"
    /\ CleanHost(e)
    /\ Len(e.aliases) = 2
    /\ e.comment = Some(<<"x", SP, HASH, "y">>)

\* The indices of the entries of hs that query matches, by the claim's
\* wording: the canonical address text equals query, or query is one of
\* the names.
Matching(hs, query) ==
    {i \in 1..Len(hs) : \/ IpStr(hs[i].ip_address) = query
                        \/ query \in Range(all_names(hs[i]))}

\* The entries of hs at the indices of I, in the order of hs.
RECURSIVE Pick(_, _, _)
Pick(hs, I, i) ==
    IF i > Len(hs) THEN <<>>
    ELSE (IF i \in I THEN <<hs[i]>> ELSE <<>>) \o Pick(hs, I, i + 1)

\* C2, as claimed: on a collection loaded from a file and extended with
\* add() (entries the line format carries unchanged), save() completes
\* without error and the file then parses to the in-memory entries, in order.
C2_SaveThenReloadPreserves ==
    (/\ last.op = "save"
     /\ last.raised # "OSError"
     /\ fs["target"].readable
     /\ Len(last.pre) >= 2
     /\ last.pre[Len(last.pre)] = h_d
     /\ \A i \in 1..Len(last.pre) : CleanHost(last.pre[i]))
    => (/\ last.raised = "none"
        /\ wpc = "done" => parse(fs["target"]).hosts = last.pre)

\* C3: from the call of HostsFileParser.write until it returns or raises, the
\* target holds the complete pre-write content until the rename and the
\* complete new content after it; after a failed write it holds the
\* pre-write content.
C3_AtomicReplace ==
    /\ wpc \notin {"idle", "done"} => fs["target"] = wpre
    /\ wpc = "done" => fs["target"] = [Output(warg.hosts) EXCEPT !.mode = fs["target"].mode]

C3_Witness ==
    /\ wpc = "failed"
    /\ wpre = FileA
    /\ wwritten >= 1
    /\ fs["target"] = wpre

\* The names of the two entries are disjoint.
NamesDisjoint(a, b) == Range(all_names(a)) \cap Range(all_names(b)) = {}

C5_DuplicateErrorLeavesUnmodified ==
    last.raised = "DuplicateEntryError"
    => (last.op = "add" /\ _loaded /\ _hosts = Some(last.pre))

C5_Witness ==
    /\ last.op = "add"
    /\ last.raised = "DuplicateEntryError"
    /\ last.wasLoaded
    /\ Len(last.pre) >= 2

\* C6, as claimed: add with the default allow_duplicates of an entry whose
\* address equals an existing entry's and whose names are disjoint from every
\* existing entry's names succeeds, and the length grows by one.
C6_SameAddressOtherNameAdded ==
    (/\ last.op = "add" /\ ~last.allow /\ last.raised # "OSError"
     /\ \E i \in 1..Len(last.pre) : last.pre[i].ip_address = last.host[1].ip_address
     /\ \A i \in 1..Len(last.pre) : NamesDisjoint(last.pre[i], last.host[1]))
    => (last.raised = "none" /\ Len(_hosts[1]) = Len(last.pre) + 1)

\* C7: a successful add leaves the old entries in place and puts the new
\* entry after them; with allow_duplicates=True add succeeds whatever the
\* existing entries are.
C7_AddAppendsAtEnd ==
    /\ (last.op = "add" /\ last.raised = "none")
       => /\ Len(_hosts[1]) = Len(last.pre) + 1
          /\ \A i \in 1..Len(last.pre) : _hosts[1][i] = last.pre[i]
          /\ _hosts[1][Len(last.pre) + 1] = last.host[1]
    /\ (last.op = "add" /\ last.allow /\ last.raised # "OSError")
       => last.raised = "none"

\* add(allow_duplicates=True) of an entry equal to an existing one succeeded.
C7_Witness ==
    /\ last.op = "add" /\ last.allow /\ last.raised = "none"
    /\ Len(last.pre) >= 1
    /\ last.host[1] # last.pre[1]
    /\ \E i \in 1..Len(last.pre) : last.pre[i].hostname = last.host[1].hostname

\* C8: remove(query) returns the number of entries that matched; afterwards
\* nothing matches query and the entries that did not match are all there in
\* their order; when nothing matched it returns 0 and changes nothing.
C8_RemoveAllMatching ==
    (last.op = "remove" /\ last.raised # "OSError")
    => LET M == Matching(last.pre, last.query) IN
       /\ last.raised = "none"
       /\ last.count = Cardinality(M)
       /\ Matching(_hosts[1], last.query) = {}
       /\ _hosts[1] = Pick(last.pre, (1..Len(last.pre)) \ M, 1)
       /\ M = {} => (last.count = 0 /\ _hosts[1] = last.pre)

\* Two entries were removed from between or around one that stays.
C8_Witness ==
    /\ last.op = "remove"
    /\ last.count = 2
    /\ Len(last.pre) = 3
    /\ _hosts[1] = <<last.pre[2]>>

\* C9: find(query) returns, in collection order, exactly the entries whose
\* canonical address text equals query or whose names contain query, and
\* does not change the entries.
C9_FindExactMatches ==
    (last.op = "find" /\ last.raised # "OSError")
    => /\ last.raised = "none"
       /\ last.result = Pick(last.pre, Matching(last.pre, last.query), 1)
       /\ _hosts = Some(last.pre)

\* find by address returned two different entries that share the address.
C9_Witness ==
    /\ last.op = "find"
    /\ last.query = T_10_0_0_1
    /\ Len(last.result) = 2
    /\ last.result[1] # last.result[2]
    /\ Len(last.pre) = 3

\* The first entry of hs that query matches, None when there is none.
FirstMatch(hs, query) ==
    LET M == Matching(hs, query)
    IN  IF M = {} THEN None ELSE Some(hs[CHOOSE i \in M : \A j \in M : i <= j])

\* C10: find_one(query) is the first entry find(query) returns, or None;
\* hosts.<name> for a name that is no real attribute and does not start with
\* an underscore is find_one(name); an unknown name that starts with an
\* underscore raises AttributeError and does not load.
C10_FindOneAndAttribute ==
    /\ (last.op = "find_one" /\ last.raised # "OSError")
       => (last.raised = "none" /\ last.result = FirstMatch(last.pre, last.query))
    /\ (last.op = "getattr" /\ Head(last.query) # "_" /\ last.raised # "OSError")
       => (last.raised = "none" /\ last.result = FirstMatch(last.pre, last.query))
    /\ (last.op = "getattr" /\ Head(last.query) = "_")
       => (last.raised = "AttributeError" /\ last.loads = 0 /\ _loaded = last.wasLoaded)

\* hosts.a on a collection with two different entries named a.
C10_Witness ==
    /\ last.op = "getattr"
    /\ last.query = s_a
    /\ last.pre = <<h_a2, h_a1>>
    /\ last.result = Some(h_a2)

\* The calls that go through _ensure_loaded before they act.
LoadingOps == {"len", "getitem", "iter", "find", "find_one", "add", "remove",
               "insert", "contains", "save"}

\* The entries a read of file f gives the collection: what its lines parse
\* to, nothing when the path does not exist.
Loadable(f) == IF f.exists THEN parse(f).hosts ELSE <<>>

\* C11: a newly constructed Hosts is Unloaded; repr() and str() read nothing
\* and leave the collection as Loaded or Unloaded as it was; a call of len,
\* indexing, iteration, find, find_one, add, remove, insert, a membership
\* test or save made while Unloaded reads the file once before it acts, acts
\* on the entries read, and leaves the collection Loaded (a read that fails
\* with an I/O error propagates instead).
C11_LazyLoading ==
    /\ last.op = "none" => (~_loaded /\ _hosts = None)
    /\ last.op \in {"repr", "str"} =>
           /\ last.loads = 0
           /\ _loaded = last.wasLoaded
           /\ (~last.wasLoaded => _hosts = None)
    /\ (last.op \in LoadingOps /\ ~last.wasLoaded) =>
           /\ last.loads = 1
           /\ IF last.file.exists /\ ~last.file.readable
              THEN last.raised = "OSError" /\ ~_loaded
              ELSE /\ _loaded
                   /\ _hosts # None
                   /\ last.pre = Loadable(last.file)

\* C11 witness: an iteration was the first call on a collection whose file
\* holds three entries; it read the file and yielded them.
C11_Witness ==
    /\ last.op = "iter"
    /\ ~last.wasLoaded
    /\ last.loads = 1
    /\ _loaded
    /\ Len(last.result) = 3

\* C12: a load, by load() or implied by another call, of a Hosts whose file
\* path does not exist raises nothing and leaves the collection Loaded with
\* zero entries: load() returns, and a call that loaded implicitly found an
\* empty list to act on.
C12_MissingFileLoadsEmpty ==
    (last.loads = 1 /\ ~last.file.exists) =>
        /\ last.raised \notin {"FileNotFoundError", "OSError"}
        /\ _loaded
        /\ last.pre = <<>>
        /\ last.op = "load" => (last.raised = "none" /\ _hosts = Some(<<>>))
        /\ last.op = "len" => (last.raised = "none" /\ last.count = 0)

\* C12 witness: load() was called on a path that does not exist.
C12_Witness ==
    /\ last.op = "load"
    /\ last.loads = 1
    /\ ~last.file.exists
    /\ last.raised = "none"
    /\ _hosts = Some(<<>>)

\* C13, as claimed: HostsFileParser.parse(path) called on a path that does
\* not exist returns an empty list and does not raise.
C13_ParseMissingReturnsEmpty ==
    (last.op = "parse" /\ ~last.file.exists) =>
        (last.raised = "none" /\ last.result = <<>>)

\* C13, amended: HostsFileParser.parse(path) called on a path that does not
\* exist raises FileNotFoundError and returns no list; Hosts.load is what
\* answers the missing file with an empty list.
C13_ParseMissingRaises ==
    /\ (last.op = "parse" /\ ~last.file.exists) =>
           (last.raised = "FileNotFoundError" /\ last.result = <<>>)
    /\ (last.op = "load" /\ ~last.file.exists) =>
           (last.raised = "none" /\ last.pre = <<>>)

\* C13 witness: parse was called on a path that does not exist.
C13_Witness ==
    /\ last.op = "parse"
    /\ ~last.file.exists
    /\ last.raised = "FileNotFoundError"

\* C14: HostsFileParser.parse on a readable file returns one entry for each
\* line that decodes to a Host, in the order of the lines; a line that
\* decodes to a skip or whose decoding raises adds nothing, and no failure
\* of a line reaches the caller.
C14_ParseKeepsDecodableLines ==
    (last.op = "parse" /\ last.file.exists /\ last.file.readable) =>
        LET ls  == ReadLines(last.file.text, <<>>)
            dec == [i \in 1..Len(ls) |-> from_line(ls[i])]
            ok  == {i \in 1..Len(ls) : dec[i].tag = "host"}
        IN  /\ last.raised = "none"
            /\ Len(last.result) = Cardinality(ok)
            /\ last.result = Pick([i \in 1..Len(ls) |-> dec[i].host], ok, 1)

\* C14 witness: parse read a file whose second line raises in from_line and
\* whose later lines are blank, a comment, malformed and, last, an entry:
\* the first and the last line are returned.
C14_Witness ==
    /\ last.op = "parse"
    /\ last.file = FileRaising
    /\ from_line(ReadLines(FileRaising.text, <<>>)[2]).tag = "ValueError"
    /\ last.raised = "none"
    /\ Len(last.result) = 2
    /\ last.result[1].hostname = s_a
    /\ last.result[2].hostname = s_d

\* C15, as claimed: from_line on a data line with a '#' whose comment part
\* is empty after trimming returns a Host whose comment is None, equal to
\* the Host decoded from the same line cut before the '#'.
C15_EmptyCommentPartIsNone ==
    LET l1 == Strip(line)
        k  == FirstIndex(l1, HASH, 1)
    IN  (/\ cpc = "parsed"
         /\ k > 1
         /\ Strip(SubSeq(l1, k + 1, Len(l1))) = <<>>
         /\ from_line(SubSeq(l1, 1, k - 1)).tag = "host")
        => /\ decoded.tag = "host"
           /\ decoded.host.comment = None
           /\ decoded = from_line(SubSeq(l1, 1, k - 1))

\* The constructor has been called on e, and with an address.
Constructed == cpc \in {"built", "encoded", "decoded", "rejected"}
HasAddress(h) == h.ip_address.version \in {4, 6}

\* A str made of whitespace only.
WhitespaceOnly(n) == IsStr(n) /\ n # <<>> /\ \A i \in 1..Len(n) : IsSpace(n[i])

\* C16, as claimed: constructing a Host with an empty, a whitespace-only or
\* a non-string hostname raises ValueError.
C16_BadHostnameRaises ==
    (/\ Constructed
     /\ HasAddress(e)
     /\ (e.hostname = <<>> \/ WhitespaceOnly(e.hostname) \/ ~IsStr(e.hostname)))
    => (cpc = "rejected" /\ __post_init__(e) = "ValueError")

\* C17, as claimed: constructing a Host whose comment contains a newline, a
\* carriage return or a tab raises ValueError.
C17_BadCommentRaises ==
    (/\ Constructed
     /\ HasAddress(e)
     /\ IsStr(e.hostname) /\ e.hostname # <<>>
     /\ e.comment # None
     /\ \E c \in {NL, CR, TAB} : Contains(e.comment[1], c))
    => (cpc = "rejected" /\ __post_init__(e) = "ValueError")

\* C18, as claimed: constructing a Host whose hostname contains a newline or
\* a tab is rejected, and the line to_line() gives for a Host that exists
\* has a single newline, at its end.
C18_HostnameKeepsOneLine ==
    /\ (/\ Constructed
        /\ HasAddress(e)
        /\ IsStr(e.hostname)
        /\ (Contains(e.hostname, NL) \/ Contains(e.hostname, TAB)))
       => cpc = "rejected"
    /\ cpc \in {"encoded", "decoded"} =>
           /\ line # <<>>
           /\ line[Len(line)] = NL
           /\ \A i \in 1..(Len(line) - 1) : line[i] # NL

\* The target as it was before the write of the last save: the write of a
\* save that raised before its first step never began.
BeforeSave == IF wpc = "idle" THEN fs["target"] ELSE wpre

\* C19, as claimed, for the write Hosts.save makes: once save(backup=True)
\* is over on an existing target, the backup path holds the content the
\* target had before the write; with backup=False, or without a target, no
\* backup file is made.
C19_SaveBackupHoldsOldContent ==
    (last.op = "save" /\ last.raised # "OSError" /\ wpc \in {"idle", "done"}) =>
        IF last.backup /\ BeforeSave.exists
        THEN fs["backup"].exists /\ fs["backup"].text = BeforeSave.text
        ELSE ~fs["backup"].exists

\* C20, as claimed: save(write_header=True) completes and leaves a file made
\* of the two header lines, a blank line and the entries' lines in list
\* order; save(write_header=False) completes and leaves a file made of the
\* entries' lines alone.
C20_HeaderWhenRequested ==
    (last.op = "save" /\ last.raised # "OSError") =>
        /\ last.raised = "none"
        /\ wpc = "done" =>
               fs["target"].text =
                   (IF last.write_header THEN Header ELSE <<>>)
                   \o EntryLines(last.pre, Len(last.pre))

\* C21, as claimed: a with block on a Hosts that adds an entry and ends
\* without an exception saves on exit: nothing is raised and the entry is
\* among those a fresh Hosts loads from the path.
C21_WithSavesOnCleanExit ==
    (last.op = "with" /\ ~last.flag) =>
        /\ last.raised = "none"
        /\ last.host[1] \in Range(Loadable(fs["target"]))

\* C22, as claimed: a with block on a Hosts that adds an entry and then
\* raises RuntimeError does not save: the file is as it was before the
\* block and the RuntimeError of the block reaches the caller.
C22_WithSkipsSaveOnError ==
    (last.op = "with" /\ last.flag) =>
        /\ fs["target"] = last.file
        /\ last.raised = "RuntimeError"

\* C23: load() on a collection that is already Loaded leaves exactly the
\* entries the file holds when load() is called: whatever was in memory
\* (unsaved adds, removes, index edits) is gone and content written to the
\* file by others since the last load is there.  (A file that cannot be read
\* makes load() raise instead.)
C23_LoadReplacesFromFile ==
    (last.op = "load" /\ last.wasLoaded) =>
        IF last.file.exists /\ ~last.file.readable
        THEN last.raised = "OSError"
        ELSE /\ last.raised = "none"
             /\ _loaded
             /\ _hosts = Some(Loadable(last.file))

\* C23 witness: the collection was loaded from FileA, h_d was put in front of
\* its entry, the file was rewritten by another program, and load() then
\* left the two entries of the rewritten file.
C23_Witness ==
    /\ last.op = "load"
    /\ last.wasLoaded
    /\ last.file = FileEdited
    /\ last.result = <<h_d, h_a1>>
    /\ _hosts = Some(<<h_a1, h_d>>)

\* An index outside a list of n entries: index >= n or index < -n.
OutOfRange(hs, index) == index >= Len(hs) \/ index < -Len(hs)

\* C24: hosts[index], hosts[index] = value and del hosts[index] with an index
\* outside the collection's range raise IndexError and leave the entries as
\* they were; with an index inside the range none of them raises.
C24_IndexOutOfRangeRaises ==
    (last.op \in {"getitem", "setitem", "delitem"} /\ last.raised # "OSError") =>
        IF OutOfRange(last.pre, last.index)
        THEN last.raised = "IndexError" /\ _hosts = Some(last.pre)
        ELSE last.raised = "none"

\* C24 witness: del hosts[3] on a collection of three entries.
C24_Witness ==
    /\ last.op = "delitem"
    /\ last.index = 3
    /\ Len(last.pre) = 3
    /\ last.raised = "IndexError"
    /\ _hosts = Some(last.pre)

\* The position (from 1) at which insert(index, value) puts the value in a
\* list of n entries: 1 for index < -n, n + 1 for index > n.
InsertedAt(hs, index) ==
    IF index < -Len(hs) THEN 1
    ELSE IF index > Len(hs) THEN Len(hs) + 1
    ELSE IF index < 0 THEN index + Len(hs) + 1
    ELSE index + 1

\* C25 as claimed: insert(index, value) with index > length or index < -length
\* raises an index error and leaves the entries as they were.
C25_InsertOutOfRangeRaises ==
    (/\ last.op = "insert"
     /\ last.raised # "OSError"
     /\ (last.index > Len(last.pre) \/ last.index < -Len(last.pre))) =>
        last.raised = "IndexError" /\ _hosts = Some(last.pre)

\* C25: insert(index, value) raises no index error for any index: the value is
\* put before the entry the index names, at the front for index < -length and
\* at the end for index > length, and every earlier entry keeps its order.
C25_InsertClamps ==
    (last.op = "insert" /\ last.raised # "OSError") =>
        /\ last.raised = "none"
        /\ _hosts = Some(SubSeq(last.pre, 1, InsertedAt(last.pre, last.index) - 1)
                         \o last.host
                         \o SubSeq(last.pre, InsertedAt(last.pre, last.index),
                                   Len(last.pre)))

\* C25 witness: insert(-4, h_d) on a collection of one entry put h_d in front.
C25_Witness ==
    /\ last.op = "insert"
    /\ last.index = -4
    /\ Len(last.pre) = 1
    /\ last.raised = "none"
    /\ _hosts = Some(<<h_d>> \o last.pre)

\* C27: when write has succeeded the target has the permission bits the
\* target had before the write if it existed and was not world-writable, and
\* 0o644 if there was no target or it was world-writable; the file write
\* leaves is never world-writable.
C27_ModeAfterWrite ==
    wpc = "done" =>
        /\ fs["target"].mode = IF wpre.exists /\ "ow" \notin wpre.mode
                               THEN wpre.mode
                               ELSE Mode644
        /\ "ow" \notin fs["target"].mode

\* C27 witness: a write over a target of mode 0o666 left one of mode 0o644.
C27_Witness ==
    /\ wpc = "done"
    /\ wpre.mode = Mode666
    /\ fs["target"].mode = Mode644
    /\ fs["target"].text = Output(warg.hosts).text

\* C27 second case: a write over a target of mode 0o600 kept that mode.
C27_WitnessKept ==
    /\ wpc = "done"
    /\ wpre = Unreadable
    /\ fs["target"].mode = Mode600

\* s is the beginning of t.
IsPrefix(s, t) == Len(s) <= Len(t) /\ s = SubSeq(t, 1, Len(s))

\* What a writer's temp file holds is the beginning of that writer's own
\* output, and all of it once the file is closed.
TempsApart ==
    \A w \in Writers :
        /\ writers[w].pc \in {"header1", "header2", "entries"} =>
               IsPrefix(fs[TempOf(w)].text, Output(writers[w].hosts).text)
        /\ writers[w].pc \in {"chmod", "stat", "copystat", "rename"} =>
               /\ fs[TempOf(w)].exists
               /\ fs[TempOf(w)].text = Output(writers[w].hosts).text

\* The target is what it was before the writers started or the complete
\* output of one call.
TargetWhole ==
    \/ fs["target"] \in WritersInitialFiles
    \/ \E hs \in WriterLists : [fs["target"] EXCEPT !.mode = Mode644] = Output(hs)

\* The target changes only in the rename step of a writer, and that step
\* leaves the complete output of that writer.
RenameDecides ==
    /\ fs'["target"] # fs["target"] =>
           \E w \in Writers : writers[w].pc = "rename" /\ writers'[w].pc = "done"
    /\ \A w \in Writers :
           (writers[w].pc = "rename" /\ writers'[w].pc = "done") =>
               /\ fs'["target"].exists /\ fs'["target"].readable
               /\ fs'["target"].text = Output(writers[w].hosts).text

\* C26: with two writers on one path, backup disabled and their steps in any
\* order, each writes its own temp file, the target always holds the content
\* from before the writes or the complete output of one writer, and each
\* rename leaves the output of the writer that renamed: the last rename wins.
C26_LastWriterWins == [](TempsApart /\ TargetWhole) /\ [][RenameDecides]_vars

\* C26 witness: both writers have finished without error with different
\* entries, and the target holds the output of w2 only.
C26_Witness ==
    /\ writers["w1"].pc = "done"
    /\ writers["w2"].pc = "done"
    /\ writers["w1"].hosts # writers["w2"].hosts
    /\ fs["target"].text = Output(writers["w2"].hosts).text
    /\ fs["target"].text # Output(writers["w1"].hosts).text

\* A line in canonical form: the canonical text of an address, a hostname
\* and aliases, separated by single tabs, no comment, one newline at the end.
IsCanonicalLine(ln) ==
    /\ Len(ln) > 1
    /\ ln[Len(ln)] = NL
    /\ LET body == SubSeq(ln, 1, Len(ln) - 1) IN
       /\ \A i \in 1..Len(body) : body[i] \notin {SP, NL, CR, HASH}
       /\ body[1] # TAB /\ body[Len(body)] # TAB
       /\ \A i \in 1..(Len(body) - 1) : ~(body[i] = TAB /\ body[i + 1] = TAB)
       /\ Len(Split(body)) >= 2
       /\ ip_address(Split(body)[1]) # None
       /\ IpStr(ip_address(Split(body)[1])[1]) = Split(body)[1]

\* C28: for a line in canonical form, Host.from_line(line).to_line() is the
\* line and str(Host.from_line(line)) is the line without its newline.
C28_CanonicalLineReEncodes ==
    (cpc = "reencoded" /\ IsCanonicalLine(line)) =>
        /\ reenc.to_line = line
        /\ reenc.str = SubSeq(line, 1, Len(line) - 1)

\* C28 witness: the IPv6 line "::1\td\n" was decoded and encoded again.
C28_Witness ==
    /\ cpc = "reencoded"
    /\ line = T_6_1 \o <<TAB>> \o s_d \o <<NL>>
    /\ IsCanonicalLine(line)
    /\ reenc.to_line = line
    /\ reenc.str = T_6_1 \o <<TAB>> \o s_d

\* C28 other side: the long form of the address is not canonical, and its
\* line does not come back.
C28_NonCanonicalDiffers ==
    /\ cpc = "reencoded"
    /\ line = T_6_1_long \o <<TAB>> \o s_d \o <<NL>>
    /\ ~IsCanonicalLine(line)
    /\ reenc.to_line # line

\* The path a persist call writes to.
PersistTarget == IF last.path = None THEN file_path ELSE last.path[1]

\* C29, as claimed: persist() saves the entries in memory to file_path and
\* persist(path) to the given path, so that a new Hosts on the path written
\* finds each of them; file_path is afterwards what it was before the call.
C29_PersistSavesAndRestores ==
    (last.op = "persist" /\ last.raised # "OSError") =>
        /\ last.raised = "none"
        /\ \A i \in 1..Len(_hosts[1]) :
               find(Loadable(fs[PersistTarget]), _hosts[1][i].hostname) # <<>>
        /\ file_path = "target"

\* C29, the part that holds: file_path is the same before and after every
\* call, persist(path) included, whether it raised or not.
C29_FilePathRestored == [][file_path' = file_path]_vars

\* C29 reached: persist("other") was called on a loaded collection with an
\* entry, raised TypeError and wrote nothing.
C29_PersistRaised ==
    /\ last.op = "persist"
    /\ last.path = Some("other")
    /\ last.raised = "TypeError"
    /\ Len(_hosts[1]) > 0
    /\ ~fs["other"].exists
    /\ file_path = "target"

\* The lines whose data part has an address that parses and a hostname, and
\* whose comment part, stripped, holds a tab or a newline.
HasBadCommentPart(ln) ==
    LET l1 == Strip(ln)
        k  == FirstIndex(l1, HASH, 1)
    IN  /\ k > 1
        /\ Len(Split(SubSeq(l1, 1, k - 1))) >= 2
        /\ ip_address(Split(SubSeq(l1, 1, k - 1))[1]) # None
        /\ \E i \in (k + 1)..Len(l1) :
               /\ l1[i] \in {TAB, NL}
               /\ \E j \in (k + 1)..(i - 1) : ~IsSpace(l1[j])
               /\ \E j \in (i + 1)..Len(l1) : ~IsSpace(l1[j])

\* C30 as claimed: Host.from_line raises for no line; it returns a Host or
\* None.
C30_FromLineNeverRaises ==
    cpc = "parsed" => decoded.tag \in {"host", "skip"}

\* C30: Host.from_line raises ValueError exactly for the lines with an
\* address that parses, a hostname, and a tab or newline inside the comment
\* part; for every other line it returns a Host or None, and None when the
\* address token does not parse.
C30_FromLineRaisesForBadComment ==
    cpc = "parsed" =>
        /\ decoded.tag = "ValueError" <=> HasBadCommentPart(line)
        /\ decoded.tag \in {"host", "skip", "ValueError"}
        /\ (Len(Split(line)) >= 1 /\ ip_address(Split(line)[1]) = None) =>
               decoded.tag = "skip"

\* C30 witness: from_line("10.0.0.1 a # x\ty") raised ValueError.
C30_Witness ==
    /\ cpc = "parsed"
    /\ line = T_10_0_0_1 \o <<SP>> \o s_a \o <<SP, HASH, SP, "x", TAB, "y">>
    /\ HasBadCommentPart(line)
    /\ decoded.tag = "ValueError"

\* C30 other case: from_line("bad a #") returned None.
C30_BadAddressSkipped ==
    /\ cpc = "parsed"
    /\ line = <<"b", "a", "d", SP, "a", SP, HASH>>
    /\ decoded = Skip

\* The steps of write inside its try block, after the temp file was made.
TrySteps == {"close_fd", "open", "header1", "header2", "entries", "chmod",
             "copystat", "rename"}

\* C31 as claimed: when write has failed at a step after the temp file was
\* made, the temp file is gone when the error reaches the caller.
C31_TempRemovedOnFailure ==
    (wpc = "failed" /\ werr.raised \in TrySteps) => ~fs[temp_path].exists

\* The except clause passes on the exception it caught.
ReRaisesOriginal ==
    (wpc \in {"except", "except_no_temp"} /\ wpc' = "failed") =>
        werr'.raised = werr.raised

\* C31: when write has failed at a step after the temp file was made, the
\* error that reaches the caller is the one that step raised, and the temp
\* file is gone unless removing it failed too (that second error is passed
\* over and the temp file stays).
C31_TempRemovedUnlessUnlinkFails ==
    /\ [](wpc = "failed" /\ werr.raised \in TrySteps =>
              /\ werr.unlink \in {"done", "OSError"}
              /\ fs[temp_path].exists <=> werr.unlink = "OSError")
    /\ [][ReRaisesOriginal]_vars

\* C31 witness: the rename failed, the temp file was removed and the error
\* of the rename reached the caller.
C31_Witness ==
    /\ wpc = "failed"
    /\ werr = [raised |-> "rename", unlink |-> "done"]
    /\ ~fs[temp_path].exists
    /\ fs["target"] = wpre

\* C31 other case: chmod failed and so did the removal of the temp file.
C31_TempLeftBehind ==
    /\ wpc = "failed"
    /\ werr = [raised |-> "chmod", unlink |-> "OSError"]
    /\ fs[temp_path].exists

\* The failing copy of the backup step leaves the target and the temp path
\* alone and takes write straight to the caller.
BackupFailureStopsWrite ==
    (wpc = "backup" /\ wpc' = "failed") =>
        /\ werr'.raised = "backup"
        /\ fs'["target"] = fs["target"]
        /\ fs'[temp_path] = fs[temp_path]

\* C32: with backup=True and an existing target, a failure of the copy to the
\* backup path makes write raise that failure; no temp file is made and the
\* target is as it was before the call.
C32_BackupFailureRaisesFirst ==
    /\ [](werr.raised = "backup" =>
              /\ wpc = "failed"
              /\ warg.backup /\ wpre.exists
              /\ fs["target"] = wpre)
    /\ [][BackupFailureStopsWrite]_vars
    /\ [][(wpc = "backup" /\ warg.backup /\ fs["target"].exists
           /\ ~fs["target"].readable) => wpc' = "failed"]_vars

\* C32 witness: the target could not be read for the copy, write raised and
\* no temp file exists.
C32_Witness ==
    /\ wpc = "failed"
    /\ werr.raised = "backup"
    /\ wpre = Unreadable
    /\ fs["target"] = Unreadable
    /\ ~fs[temp_path].exists

\* C33, as claimed: save() leaves the entries in memory as they are (for an
\* Unloaded collection, as the forced load read them) and writes exactly
\* them: once the save is over the file is the output of those entries,
\* whatever the file held before.
C33_SaveWritesMemoryState ==
    (last.op = "save" /\ last.raised # "OSError") =>
        /\ _hosts = Some(last.pre)
        /\ ~last.wasLoaded => last.pre = Loadable(last.file)
        /\ last.raised = "none"
        /\ wpc \in {"idle", "done"} => fs["target"].text = Output(last.pre).text

\* C33, the part that holds: no save changes the entries in memory, and on
\* an Unloaded collection they are those of the file.
C33_SaveKeepsEntries ==
    (last.op = "save" /\ last.raised # "OSError") =>
        /\ _hosts = Some(last.pre)
        /\ ~last.wasLoaded => last.pre = Loadable(last.file)

\* C33 reached: save() on an Unloaded collection over FileA raised TypeError
\* and the file is still FileA, not the output of the entry read.
C33_SaveWroteNothing ==
    /\ last.op = "save"
    /\ ~last.wasLoaded
    /\ last.raised = "TypeError"
    /\ last.pre = <<h_a1>>
    /\ fs["target"] = FileA
    /\ FileA.text # Output(<<h_a1>>).text

\* No two entries of hs have the same address, and no name is among the
\* names (hostname and aliases) of two entries.
Unique(hs) ==
    \A i \in 1..Len(hs) : \A j \in 1..Len(hs) :
        i < j =>
            /\ hs[i].ip_address # hs[j].ip_address
            /\ Range(all_names(hs[i])) \cap Range(all_names(hs[j])) = {}

LoadErrorKeepsState ==
    (last'.op = "load" /\ last'.raised = "OSError") =>
        (_hosts' = _hosts /\ _loaded' = _loaded)

\* C35: load() on a file that exists but cannot be read raises the read
\* error, and the collection is as before the call: Unloaded if it was
\* Unloaded, and with its previous entries if it was Loaded.
C35_FailedLoadKeepsState ==
    /\ []((last.op = "load" /\ last.file.exists /\ ~last.file.readable) =>
              last.raised = "OSError")
    /\ [][LoadErrorKeepsState]_vars

\* C35 witness: FileA was loaded, h_d was added, the file became unreadable,
\* and load() raised and left both entries.
C35_Witness ==
    /\ last.op = "load"
    /\ last.raised = "OSError"
    /\ last.wasLoaded
    /\ _loaded
    /\ _hosts = Some(<<h_a1, h_d>>)
    /\ fs["target"] = Unreadable

\* C35 other case: load() on an Unloaded collection raised and the
\* collection is still Unloaded.
C35_UnloadedStays ==
    /\ last.op = "load"
    /\ last.raised = "OSError"
    /\ ~last.wasLoaded
    /\ ~_loaded
    /\ _hosts = None

\* The calls on a Hosts that go through _ensure_loaded.
EnsuringOps == LoadingOps \cup {"setitem", "delitem", "getattr", "persist"}

\* A call made on a Loaded collection acts on the entries in memory: it
\* reads no file, and what len, iteration, find and indexing return is
\* computed from those entries.
ActsOnMemory ==
    (/\ _loaded
     /\ fs' = fs
     /\ last'.op \in EnsuringOps
     /\ last'.raised # "AttributeError") =>
        /\ last'.loads = 0
        /\ last'.pre = _hosts[1]
        /\ last'.op = "len" => last'.count = Len(_hosts[1])
        /\ last'.op = "iter" => last'.result = _hosts[1]
        /\ last'.op = "find" => last'.result = find(_hosts[1], last'.query)
        /\ (last'.op = "getitem" /\ last'.raised = "none") =>
               last'.result = <<_hosts[1][Position(_hosts[1], last'.index)]>>

\* C36: once the collection is Loaded only load() reads the file: every
\* other call acts on the entries in memory, with the edits made by add,
\* remove, index assignment, deletion and insert, and without what other
\* programs wrote to the file since the load.
C36_LoadedReadsMemoryOnly ==
    /\ []((last.wasLoaded /\ last.op # "load") => last.loads = 0)
    /\ [][ActsOnMemory]_vars

\* C36 witness: FileA was loaded, h_a1 added a second time, the file then
\* rewritten by another program; iteration gives the two entries in memory,
\* not the two of the file.
C36_Witness ==
    /\ last.op = "iter"
    /\ last.wasLoaded
    /\ last.loads = 0
    /\ fs["target"] = FileEdited
    /\ last.result = <<h_a1, h_a1>>
    /\ Loadable(fs["target"]) # last.result

\* C37: the loaded flag is set only while the entry list is a list, and a
\* Loaded collection stays Loaded whatever is called, a load() or save() that
\* raises included.
C37_LoadedIsOneWay ==
    /\ [](_loaded => _hosts # None)
    /\ [][_loaded => _loaded']_vars

\* C37 witness: on a Loaded collection whose file became unreadable, save()
\* raised and the collection is Loaded with its entries.
C37_Witness ==
    /\ last.op = "save"
    /\ last.raised = "TypeError"
    /\ last.wasLoaded
    /\ fs["target"] = Unreadable
    /\ _loaded
    /\ _hosts # None

\* C37 other case: the same after a load() that raised.
C37_LoadedAfterFailedLoad ==
    /\ last.op = "load"
    /\ last.raised = "OSError"
    /\ last.wasLoaded
    /\ _loaded
    /\ _hosts # None

\* The maximal runs of characters of s outside seps, as <<first, last>>.
TokenRuns(s, seps) ==
    {r \in (1..Len(s)) \X (1..Len(s)) :
        /\ r[1] <= r[2]
        /\ \A k \in r[1]..r[2] : s[k] \notin seps
        /\ (r[1] = 1 \/ s[r[1] - 1] \in seps)
        /\ (r[2] = Len(s) \/ s[r[2] + 1] \in seps)}

\* The tokens of s when the characters of seps separate them, left to right.
TokensOf(s, seps) ==
    LET R == TokenRuns(s, seps)
        nth(m) == CHOOSE r \in R : Cardinality({q \in R : q[1] < r[1]}) = m - 1
    IN  [m \in 1..Cardinality(R) |-> SubSeq(s, nth(m)[1], nth(m)[2])]

\* from_line read the line as the tokens of its data part (the text before
\* the first '#') separated by seps: fewer than two tokens is a skip, and a
\* Host returned has token 0 as address, token 1 as hostname, the other
\* tokens as aliases in their order, and as comment the trimmed text after
\* the first '#'.
TokenizedBy(seps) ==
    LET l1   == Strip(line)
        k    == FirstIndex(l1, HASH, 1)
        data == IF k = 0 THEN l1 ELSE Strip(SubSeq(l1, 1, k - 1))
        toks == TokensOf(data, seps)
    IN  (cpc \in {"parsed", "reencoded"} /\ l1 # <<>> /\ Head(l1) # HASH) =>
            /\ Len(toks) < 2 => decoded = Skip
            /\ (Len(toks) >= 2 /\ decoded.tag = "skip") =>
                   ip_address(toks[1]) = None
            /\ decoded.tag = "host" =>
                   /\ Len(toks) >= 2
                   /\ Some(decoded.host.ip_address) = ip_address(toks[1])
                   /\ decoded.host.hostname = toks[2]
                   /\ decoded.host.aliases = SubSeq(toks, 3, Len(toks))
                   /\ decoded.host.comment =
                          IF k = 0 THEN None
                          ELSE Some(Strip(SubSeq(l1, k + 1, Len(l1))))

\* C38 as claimed: the data part is split on runs of spaces and/or tabs.
C38_SplitOnSpacesAndTabs == TokenizedBy({SP, TAB})

\* C38: the data part is split on runs of whitespace of any kind (carriage
\* return and newline as well as space and tab); fewer than two tokens is a
\* skip; a Host returned has token 0 as address, token 1 as hostname, the
\* remaining tokens as aliases in order, and the trimmed text after the
\* first '#' as comment.
C38_SplitOnWhitespace == TokenizedBy({SP, TAB, NL, CR})

\* C38 witness: from_line("10.0.0.1 \ta  b\tc#x #d ") returned the Host with
\* hostname a, aliases b and c, and comment "x #d".
C38_Witness ==
    /\ cpc = "parsed"
    /\ line = T_10_0_0_1 \o <<SP, TAB>> \o s_a \o <<SP, SP>> \o s_b \o <<TAB>> \o s_c
                  \o <<HASH>> \o s_x \o <<SP, HASH>> \o s_d \o <<SP>>
    /\ decoded = Parsed(Host(IP_10_0_0_1, s_a, <<s_b, s_c>>,
                             Some(s_x \o <<SP, HASH>> \o s_d)))

\* C38 other case: from_line("10.0.0.1 a\rb") split at the carriage return:
\* hostname a, alias b.
C38_SplitAtCarriageReturn ==
    /\ cpc = "parsed"
    /\ line = T_10_0_0_1 \o <<SP>> \o s_a \o <<CR>> \o s_b
    /\ decoded = Parsed(Host(IP_10_0_0_1, s_a, <<s_b>>, None))

=============================================================================
